---- MODULE Spec2Model ----
(***************************************************************************)
(* EPUB repair / upgrade tool (antiwong/epubrepairtool).                   *)
(*                                                                         *)
(* The repair pipeline (epub_repair) parses each content document into an  *)
(* element tree, rewrites it rule by rule and serialises it back; the      *)
(* upgrade (epub_upgrade) patches the package descriptor and synthesises a *)
(* navigation document from the NCX.  Strings are TLA+ strings; element    *)
(* trees are arenas (sequences of nodes addressed by position) so that the *)
(* stale element lists the rules iterate over keep their identity.         *)
(***************************************************************************)
EXTENDS Integers, Sequences, FiniteSets, TLC

(***************************************************************************)
(* Strings: the str methods the rules use.                                 *)
(***************************************************************************)
RECURSIVE Lower(_)
RECURSIVE LStrip(_)
RECURSIVE RStrip(_)
RECURSIVE AllDigitChars(_)

UpperChars == "ABCDEFGHIJKLMNOPQRSTUVWXYZ"
LowerChars == "abcdefghijklmnopqrstuvwxyz"
DigitChars == "0123456789"

CharAt(s, i) == SubSeq(s, i, i)

\* "needle in s"
Contains(s, needle) ==
    \E i \in 1..(Len(s) - Len(needle) + 1) : SubSeq(s, i, i + Len(needle) - 1) = needle

StartsWith(s, prefix) ==
    Len(s) >= Len(prefix) /\ SubSeq(s, 1, Len(prefix)) = prefix

IsUpperChar(c) == \E i \in 1..Len(UpperChars) : CharAt(UpperChars, i) = c
UpperIndex(c) == CHOOSE i \in 1..Len(UpperChars) : CharAt(UpperChars, i) = c
LowerChar(c) == IF IsUpperChar(c) THEN CharAt(LowerChars, UpperIndex(c)) ELSE c

\* str.lower()
Lower(s) == IF s = "" THEN "" ELSE LowerChar(Head(s)) \o Lower(Tail(s))

IsSpaceChar(c) == c \in {" ", "\n", "\t"}
IsDigitChar(c) == \E i \in 1..Len(DigitChars) : CharAt(DigitChars, i) = c

LStrip(s) == IF s # "" /\ IsSpaceChar(Head(s)) THEN LStrip(Tail(s)) ELSE s
RStrip(s) ==
    IF s # "" /\ IsSpaceChar(CharAt(s, Len(s))) THEN RStrip(SubSeq(s, 1, Len(s) - 1)) ELSE s
\* str.strip()
Strip(s) == RStrip(LStrip(s))

AllDigitChars(s) == s = "" \/ (IsDigitChar(Head(s)) /\ AllDigitChars(Tail(s)))

(***************************************************************************)
(* Element trees.  On disk a document is a nested value (Elem); in memory  *)
(* (lxml) it is an arena: a sequence of nodes, a node's identity being its *)
(* position; node 1 is the root, parent 0 is None.  Detached nodes stay in *)
(* the arena, as detached lxml elements stay alive in the lists the rules  *)
(* hold.  text/tail "" stand for None.                                     *)
(***************************************************************************)
None == 0
Root == 1
NoAttrib == [k \in {} |-> ""]

Elem(tag, attrib, text, kids, tail) ==
    [tag |-> tag, attrib |-> attrib, text |-> text, kids |-> kids, tail |-> tail]

\* element.get(name, default)
AttrGet(attrib, name, default) == IF name \in DOMAIN attrib THEN attrib[name] ELSE default
\* element.set(name, value)
AttrSet(attrib, name, value) ==
    [k \in (DOMAIN attrib) \cup {name} |-> IF k = name THEN value ELSE attrib[k]]
\* element.attrib.pop(name, None)
AttrPop(attrib, name) == [k \in (DOMAIN attrib) \ {name} |-> attrib[k]]

IndexOf(seq, v) ==
    IF \E i \in 1..Len(seq) : seq[i] = v
    THEN CHOOSE i \in 1..Len(seq) : seq[i] = v /\ \A j \in 1..(i - 1) : seq[j] # v
    ELSE 0
InSeq(seq, v) == \E i \in 1..Len(seq) : seq[i] = v
RemoveAt(seq, i) == SubSeq(seq, 1, i - 1) \o SubSeq(seq, i + 1, Len(seq))
\* list.insert(i, v) for i >= 0 (0-based): past the end appends
InsertAt(seq, i, v) ==
    IF i >= Len(seq) THEN Append(seq, v)
    ELSE SubSeq(seq, 1, i) \o <<v>> \o SubSeq(seq, i + 1, Len(seq))

\* etree.Element(tag): a new detached element; its identity is Len(t) + 1
NewElement(t, tag) ==
    Append(t, [tag |-> tag, attrib |-> NoAttrib, text |-> "", tail |-> "",
               kids |-> <<>>, parent |-> None])
NewId(t) == Len(t) + 1

GetParent(t, e) == t[e].parent
\* element.getnext(): the next sibling element
GetNext(t, e) ==
    LET p == t[e].parent IN
    IF p = None THEN None
    ELSE LET i == IndexOf(t[p].kids, e) IN
         IF i < Len(t[p].kids) THEN t[p].kids[i + 1] ELSE None

\* unlink e from its parent, if it has one (its tail goes with it)
Detach(t, e) ==
    LET p == t[e].parent IN
    IF p = None THEN t
    ELSE [t EXCEPT ![p].kids = RemoveAt(@, IndexOf(@, e)), ![e].parent = None]

\* parent.remove(e); the caller checks CanRemove first (lxml raises ValueError)
CanRemove(t, p, e) == InSeq(t[p].kids, e)
Remove(t, p, e) == Detach(t, e)

\* parent.append(e): moves e (with its tail) to the end of parent
AppendChild(t, p, e) ==
    LET t1 == Detach(t, e) IN
    [t1 EXCEPT ![p].kids = Append(@, e), ![e].parent = p]

\* parent.insert(index, e) with a 0-based index
InsertChild(t, p, index, e) ==
    LET t1 == Detach(t, e) IN
    [t1 EXCEPT ![p].kids = InsertAt(@, index, e), ![e].parent = p]

\* parent.replace(old, new): old keeps its tail and is detached
ReplaceChild(t, p, old, new) ==
    LET t1 == Detach(t, new) IN
    [t1 EXCEPT ![p].kids = [i \in 1..Len(@) |-> IF @[i] = old THEN new ELSE @[i]],
               ![old].parent = None, ![new].parent = p]

\* ref.addprevious(e): e becomes the sibling right before ref
AddPrevious(t, ref, e) ==
    LET t1 == Detach(t, e)
        p == t1[ref].parent
    IN [t1 EXCEPT ![p].kids = InsertAt(@, IndexOf(@, ref) - 1, e), ![e].parent = p]

RECURSIVE Preorder(_, _)
RECURSIVE PreorderKids(_, _, _)
\* the elements of the subtree of e in document order
Preorder(t, e) == <<e>> \o PreorderKids(t, t[e].kids, 1)
PreorderKids(t, kids, i) ==
    IF i > Len(kids) THEN <<>> ELSE Preorder(t, kids[i]) \o PreorderKids(t, kids, i + 1)

\* tree.xpath("//tag"): every element of the tree with one of the tags
XPathTags(t, tags) == SelectSeq(Preorder(t, Root), LAMBDA e : t[e].tag \in tags)

RECURSIVE IsUnder(_, _, _)
\* e has an ancestor with tag anc
IsUnder(t, e, anc) ==
    LET p == t[e].parent IN
    p # None /\ (t[p].tag = anc \/ IsUnder(t, p, anc))

(***************************************************************************)
(* parse_xhtml / serialize_xhtml (xhtml_parser.py).                        *)
(***************************************************************************)
\* the start tags that libxml2's HTML parser lets close an open <p>
BlockTags == {"p", "div", "h1", "h2", "h3", "h4", "h5", "h6", "ul", "ol", "hr", "table"}
HeadingTags == {"h1", "h2", "h3", "h4", "h5", "h6"}

FirstBlockKid(c) ==
    IF \E k \in 1..Len(c.kids) : c.kids[k].tag \in BlockTags
    THEN CHOOSE k \in 1..Len(c.kids) :
             c.kids[k].tag \in BlockTags /\ \A j \in 1..(k - 1) : c.kids[j].tag \notin BlockTags
    ELSE 0

RECURSIVE AutoClose(_)
\* HTMLParser(recover=True): a block start tag inside <p> ends the paragraph,
\* so the block and what follows it become siblings after the paragraph
AutoClose(cs) ==
    IF cs = <<>> THEN <<>>
    ELSE LET c == Head(cs)
             k == FirstBlockKid(c)
         IN IF c.tag = "p" /\ k > 0
            THEN LET n == Len(c.kids)
                     out == [i \in 1..(n - k + 1) |->
                                IF i = n - k + 1
                                THEN [c.kids[n] EXCEPT !.tail = @ \o c.tail]
                                ELSE c.kids[k + i - 1]]
                     p1 == [c EXCEPT !.kids = SubSeq(c.kids, 1, k - 1), !.tail = ""]
                 IN <<p1>> \o AutoClose(out \o Tail(cs))
            ELSE <<[c EXCEPT !.kids = AutoClose(c.kids)]>> \o AutoClose(Tail(cs))

RECURSIVE BuildNode(_, _, _)
RECURSIVE BuildKids(_, _, _, _)
BuildNode(c, parent, t) ==
    BuildKids(c.kids, 1, Len(t) + 1,
              Append(t, [tag |-> c.tag, attrib |-> c.attrib, text |-> c.text,
                         tail |-> c.tail, kids |-> <<>>, parent |-> parent]))
BuildKids(cs, i, e, t) ==
    IF i > Len(cs) THEN t
    ELSE LET kid == Len(t) + 1
             t1 == BuildNode(cs[i], e, t)
         IN BuildKids(cs, i + 1, e, [t1 EXCEPT ![e].kids = Append(@, kid)])

\* html.fromstring(content, parser): the arena of the parsed document
ParseTree(doc) == BuildNode(Head(AutoClose(<<doc>>)), None, <<>>)

IsBlank(s) == Strip(s) = ""
IndentText == "\n"

RECURSIVE ToElem(_, _, _)
\* etree.indent + etree.tostring: blank text of an element with children and
\* blank tails of the elements below the root become indentation
ToElem(t, e, isRoot) ==
    LET n == t[e] IN
    [tag |-> n.tag,
     attrib |-> n.attrib,
     text |-> IF Len(n.kids) > 0 /\ IsBlank(n.text) THEN IndentText ELSE n.text,
     kids |-> [i \in 1..Len(n.kids) |-> ToElem(t, n.kids[i], FALSE)],
     tail |-> IF ~isRoot /\ IsBlank(n.tail) THEN IndentText ELSE n.tail]

SerializeTree(t) == ToElem(t, Root, TRUE)

(***************************************************************************)
(* rules/headings.py                                                       *)
(***************************************************************************)
\* _determine_heading_level
DetermineHeadingLevel(t, e) ==
    LET classes == Lower(AttrGet(t[e].attrib, "class", "")) IN
    IF Contains(classes, "heading1") \/ Contains(classes, "h1") \/ Contains(classes, "title")
    THEN 1
    ELSE IF Contains(classes, "heading2") \/ Contains(classes, "h2")
            \/ Contains(classes, "chapter")
    THEN 2
    ELSE IF Contains(classes, "heading3") \/ Contains(classes, "h3")
            \/ Contains(classes, "section")
    THEN 3
    ELSE 2

HeadingTag(level) == CASE level = 1 -> "h1" [] level = 2 -> "h2" [] OTHER -> "h3"

\* _convert_to_heading, "heading.append(child)" and the tail handling after it:
\* heading[-1] is the child just appended, so its own tail is added to itself
MoveChildWithTail(t, h, c) ==
    LET t1 == AppendChild(t, h, c) IN
    IF t1[c].tail # "" THEN [t1 EXCEPT ![c].tail = @ \o t1[c].tail] ELSE t1

RECURSIVE MoveChildren(_, _, _, _)
\* "for child in element": lxml fetches the next sibling before it hands out a
\* child, so every child of the source is visited
MoveChildren(t, h, cs, i) ==
    IF i > Len(cs) THEN t ELSE MoveChildren(MoveChildWithTail(t, h, cs[i]), h, cs, i + 1)

\* a conversion that copies every attribute of the paragraph
CopyEveryAttrib(attrib) == attrib

\* _convert_to_heading: the attributes copied to the new heading
HeadingAttrib(attrib) ==
    [k \in {a \in DOMAIN attrib : a # "class" \/ ~Contains(Lower(attrib[a]), "heading")}
        |-> attrib[k]]

\* _convert_to_heading
ConvertToHeading(t, e, level) ==
    LET h == NewId(t)
        t1 == NewElement(t, HeadingTag(level))
        t2 == [t1 EXCEPT ![h].text = t[e].text]
        t3 == MoveChildren(t2, h, t[e].kids, 1)
        t4 == [t3 EXCEPT ![h].attrib = HeadingAttrib(t[e].attrib)]
        parent == GetParent(t4, e)
    IN IF parent # None THEN ReplaceChild(t4, parent, e, h) ELSE t4

\* tree.xpath("//p[contains(@class, kw)]")
FakeHeadings(t, kw) ==
    SelectSeq(Preorder(t, Root),
              LAMBDA e : t[e].tag = "p" /\ Contains(AttrGet(t[e].attrib, "class", ""), kw))

FakeHeadingPatterns == <<"heading", "chapter", "section", "title">>

RECURSIVE ConvertAll(_, _, _)
\* "for p_elem in fake_headings"; r = [t, converted, fixes]
ConvertAll(r, ps, i) ==
    IF i > Len(ps) THEN r
    ELSE ConvertAll([r EXCEPT !.t = ConvertToHeading(r.t, ps[i],
                                                     DetermineHeadingLevel(r.t, ps[i])),
                              !.converted = @ + 1],
                    ps, i + 1)

RECURSIVE ConvertPatterns(_, _)
\* "for pattern in fake_heading_patterns": the xpath is evaluated per pattern
ConvertPatterns(r, k) ==
    IF k > Len(FakeHeadingPatterns) THEN r
    ELSE ConvertPatterns(ConvertAll(r, FakeHeadings(r.t, FakeHeadingPatterns[k]), 1), k + 1)

\* tree.xpath("//p//h1 | ... | //p//h6")
NestedHeadings(t) ==
    SelectSeq(Preorder(t, Root), LAMBDA e : t[e].tag \in HeadingTags /\ IsUnder(t, e, "p"))

\* "Remove empty paragraph if it has no other content"
DropEmptied(t, parent) ==
    IF t[parent].text = "" /\ Len(t[parent].kids) = 0
    THEN Remove(t, GetParent(t, parent), parent)
    ELSE t

\* the body of "for heading in nested_headings" for a heading whose parent is a p
MoveOut(r, h, parent) ==
    [r EXCEPT !.t = DropEmptied(AddPrevious(r.t, parent, h), parent), !.fixes = @ + 1]

\* one turn of "for heading in nested_headings"; r = [t, converted, fixes]
FixNesting(r, h) ==
    IF GetParent(r.t, h) # None /\ r.t[GetParent(r.t, h)].tag = "p"
    THEN MoveOut(r, h, GetParent(r.t, h))
    ELSE r

RECURSIVE FixAllNesting(_, _, _)
FixAllNesting(r, hs, i) ==
    IF i > Len(hs) THEN r ELSE FixAllNesting(FixNesting(r, hs[i]), hs, i + 1)

\* "Fix nested headings"
NestingPass(r) == FixAllNesting(r, NestedHeadings(r.t), 1)

\* "if converted_count > 0 or nesting_fixes > 0": the counters run across the
\* files of the book
HeadingsResult(r) ==
    [t |-> r.t, c |-> <<r.converted, r.fixes>>,
     write |-> r.converted > 0 \/ r.fixes > 0, err |-> FALSE]

\* normalize_headings, the body of the try block for one parsed tree; c holds
\* the two counters as they stand after the files before this one
HeadingsTree(t, c) ==
    HeadingsResult(NestingPass(ConvertPatterns(
        [t |-> t, converted |-> c[1], fixes |-> c[2]], 1)))

(***************************************************************************)
(* rules/paragraphs.py                                                     *)
(***************************************************************************)
KidTags(t, e) == {t[t[e].kids[i]].tag : i \in 1..Len(t[e].kids)}

\* XPath text(): the element has a text node child (its text or a child's tail)
HasTextNode(t, e) ==
    t[e].text # "" \/ \E i \in 1..Len(t[e].kids) : t[t[e].kids[i]].tail # ""

\* tree.xpath("//div[not(div) and not(p) and (text() or span or em or strong)]")
InlineDivs(t) ==
    SelectSeq(Preorder(t, Root),
              LAMBDA e : /\ t[e].tag = "div"
                         /\ KidTags(t, e) \cap {"div", "p"} = {}
                         /\ (HasTextNode(t, e) \/ KidTags(t, e) \cap {"span", "em", "strong"} # {}))

RECURSIVE RenameAll(_, _, _, _)
\* "for div in divs: div.tag = 'p'"
RenameAll(t, es, i, tag) ==
    IF i > Len(es) THEN t ELSE RenameAll([t EXCEPT ![es[i]].tag = tag], es, i + 1, tag)

\* e has a preceding sibling with the tag
HasPrecedingSibling(t, e, tag) ==
    LET p == t[e].parent IN
    p # None /\ \E j \in 1..(IndexOf(t[p].kids, e) - 1) : t[t[p].kids[j]].tag = tag

\* tree.xpath("//br/following-sibling::br")
BrAfterBr(t) ==
    SelectSeq(Preorder(t, Root), LAMBDA e : t[e].tag = "br" /\ HasPrecedingSibling(t, e, "br"))

\* tree.xpath("//p/br[last()]"): in each p, the last of its br children
LastBrOfP(t) ==
    SelectSeq(Preorder(t, Root),
              LAMBDA e : /\ t[e].tag = "br"
                         /\ t[e].parent # None
                         /\ t[t[e].parent].tag = "p"
                         /\ LET ks == t[t[e].parent].kids IN
                            \A j \in (IndexOf(ks, e) + 1)..Len(ks) : t[ks[j]].tag # "br")

\* "parent = e.getparent(); if parent is not None: parent.remove(e); count; changed"
RemoveCounted(r, e, parent) ==
    IF parent # None
    THEN [r EXCEPT !.t = Remove(r.t, parent, e), !.removed = @ + 1, !.changed = TRUE]
    ELSE r

RECURSIVE RemoveEach(_, _, _)
\* "for e in es: ..." with the body above; r has the fields t, removed, changed
RemoveEach(r, es, i) ==
    IF i > Len(es) THEN r
    ELSE RemoveEach(RemoveCounted(r, es[i], GetParent(r.t, es[i])), es, i + 1)

\* "for div in divs: div.tag = 'p'; divs_converted += 1; changed = True"
RenameDivs(r, divs) ==
    [r EXCEPT !.t = RenameAll(@, divs, 1, "p"), !.divs = @ + Len(divs),
              !.changed = Len(divs) > 0]

DivPass(r) == RenameDivs(r, InlineDivs(r.t))
\* "Remove multiple consecutive <br/> tags"
BrPairsPass(r) == RemoveEach(r, BrAfterBr(r.t), 1)
\* "Remove <br/> at end of paragraphs"
LastBrPass(r) == RemoveEach(r, LastBrOfP(r.t), 1)

ParagraphsResult(r) ==
    [t |-> r.t, c |-> <<r.divs, r.removed>>, write |-> r.changed, err |-> FALSE]

\* normalize_paragraphs_and_indents, the body of the try block for one tree
ParagraphsTree(t, c) ==
    ParagraphsResult(LastBrPass(BrPairsPass(DivPass(
        [t |-> t, divs |-> c[1], removed |-> c[2], changed |-> FALSE]))))

(***************************************************************************)
(* rules/images.py                                                         *)
(***************************************************************************)
RECURSIVE AddAlts(_, _, _)
\* "for img in images"; r = [t, added, changed]
AddAlts(r, es, i) ==
    IF i > Len(es) THEN r
    ELSE AddAlts(IF "alt" \notin DOMAIN r.t[es[i]].attrib
                 THEN [r EXCEPT !.t[es[i]].attrib = AttrSet(@, "alt", ""),
                                !.added = @ + 1, !.changed = TRUE]
                 ELSE r,
                 es, i + 1)

ImagesPass(r) == AddAlts(r, XPathTags(r.t, {"img"}), 1)

ImagesResult(r) == [t |-> r.t, c |-> <<r.added, 0>>, write |-> r.changed, err |-> FALSE]

\* normalize_images, the body of the try block for one tree
ImagesTree(t, c) ==
    ImagesResult(ImagesPass([t |-> t, added |-> c[1], changed |-> FALSE]))

(***************************************************************************)
(* rules/lists.py                                                          *)
(***************************************************************************)
\* the marker characters of unordered_pattern (the bullet U+2022 of the source
\* is outside the strings of this module)
BulletChars == {"-", "*"}

RECURSIVE LeadingDigits(_)
LeadingDigits(s) == IF s # "" /\ IsDigitChar(Head(s)) THEN 1 + LeadingDigits(Tail(s)) ELSE 0

\* unordered_pattern.match(text): ^[-*]\s+
MatchUnordered(s) == Len(s) >= 2 /\ CharAt(s, 1) \in BulletChars /\ IsSpaceChar(CharAt(s, 2))
\* ordered_pattern.match(text): ^\d+\.\s+
MatchOrdered(s) ==
    LET d == LeadingDigits(s) IN
    d >= 1 /\ Len(s) >= d + 2 /\ CharAt(s, d + 1) = "." /\ IsSpaceChar(CharAt(s, d + 2))

\* re.sub(r'^[-*]\s+', '', text)
SubUnordered(s) == IF MatchUnordered(s) THEN LStrip(Tail(s)) ELSE s
\* re.sub(r'^\d+\.\s+', '', text)
SubOrdered(s) ==
    IF MatchOrdered(s) THEN LStrip(SubSeq(s, LeadingDigits(s) + 2, Len(s))) ELSE s

ItemText(t, e) == Strip(t[e].text)

RECURSIVE RunEnd(_, _, _, _)
\* the inner while loop: the first index past the run of paragraphs of one kind
RunEnd(t, ps, j, ordered) ==
    IF j <= Len(ps) /\ (IF ordered THEN MatchOrdered(ItemText(t, ps[j]))
                        ELSE MatchUnordered(ItemText(t, ps[j])))
    THEN RunEnd(t, ps, j + 1, ordered)
    ELSE j

RECURSIVE AppendAll(_, _, _, _)
\* "for child in p_elem: li.append(child)"
AppendAll(t, li, cs, i) ==
    IF i > Len(cs) THEN t ELSE AppendAll(AppendChild(t, li, cs[i]), li, cs, i + 1)

\* one turn of "for p_elem, was_ordered in list_items"
ItemToLi(t, listElem, e, ordered) ==
    LET li == NewId(t)
        t1 == NewElement(t, "li")
        txt == IF ordered THEN SubOrdered(ItemText(t, e)) ELSE SubUnordered(ItemText(t, e))
        t2 == [t1 EXCEPT ![li].text = txt]
        t3 == AppendAll(t2, li, t[e].kids, 1)
        t4 == AppendChild(t3, listElem, li)
        parent == GetParent(t4, e)
    IN IF parent # None THEN Remove(t4, parent, e) ELSE t4

RECURSIVE ItemsToLi(_, _, _, _, _, _)
ItemsToLi(t, listElem, ps, i, j, ordered) ==
    IF i >= j THEN t
    ELSE ItemsToLi(ItemToLi(t, listElem, ps[i], ordered), listElem, ps, i + 1, j, ordered)

\* "Insert list before first removed paragraph's position": the parent is looked
\* up on the first paragraph after the paragraphs were removed from the tree
InsertList(t, listElem, firstP) ==
    LET parent == GetParent(t, firstP) IN
    IF parent # None
    THEN InsertChild(t, parent,
                     IF InSeq(t[parent].kids, firstP)
                     THEN IndexOf(t[parent].kids, firstP) - 1
                     ELSE Len(t[parent].kids),
                     listElem)
    ELSE t

\* one detected run ps[i..j-1] made into a list element
MakeList(t, ps, i, j, ordered) ==
    InsertList(ItemsToLi(NewElement(t, IF ordered THEN "ol" ELSE "ul"), NewId(t), ps, i, j,
                         ordered),
               NewId(t), ps[i])

\* the body of "if is_unordered or is_ordered" for the run ps[i..j-1]
ListCreated(r, ps, i, j, ordered) ==
    [r EXCEPT !.t = MakeList(r.t, ps, i, j, ordered), !.created = @ + 1]

RECURSIVE ListsLoop(_, _, _)
RECURSIVE ListsRun(_, _, _, _, _)
\* "while i < len(paragraphs)"; r = [t, created]
ListsLoop(r, ps, i) ==
    IF i > Len(ps) THEN r
    ELSE IF MatchUnordered(ItemText(r.t, ps[i]))
    THEN ListsRun(r, ps, i, RunEnd(r.t, ps, i, FALSE), FALSE)
    ELSE IF MatchOrdered(ItemText(r.t, ps[i]))
    THEN ListsRun(r, ps, i, RunEnd(r.t, ps, i, TRUE), TRUE)
    ELSE ListsLoop(r, ps, i + 1)
\* the run found, the list is made and the loop goes on behind the run: "i = j"
ListsRun(r, ps, i, j, ordered) == ListsLoop(ListCreated(r, ps, i, j, ordered), ps, j)

ListsPass(r) == ListsLoop(r, XPathTags(r.t, {"p"}), 1)

ListsResult(r) == [t |-> r.t, c |-> <<r.created, 0>>, write |-> r.created > 0, err |-> FALSE]

\* normalize_lists, the body of the try block for one tree
ListsTree(t, c) == ListsResult(ListsPass([t |-> t, created |-> c[1]]))

(***************************************************************************)
(* rules/breaks.py                                                         *)
(***************************************************************************)
RECURSIVE ReplaceAll(_, _)
\* s.replace(old, "")
ReplaceAll(s, old) ==
    IF s = "" THEN ""
    ELSE IF StartsWith(s, old) THEN ReplaceAll(SubSeq(s, Len(old) + 1, Len(s)), old)
    ELSE Head(s) \o ReplaceAll(Tail(s), old)

ChapterKeywords == {"chapter", "part", "book"}
PageBreakClasses == {"page-break", "pagebreak", "break"}

\* "any(keyword in heading_text for keyword in [...])" on the heading's own text
HasChapterKeyword(t, h) ==
    \E kw \in ChapterKeywords : Contains(Lower(Strip(t[h].text)), kw)

IsH1H2(t, e) == e # None /\ t[e].tag \in {"h1", "h2"}
IsChapterHeading(t, e) == IsH1H2(t, e) /\ HasChapterKeyword(t, e)

\* "not text and len(p) == 0"
IsEmptyParagraph(t, e) == Strip(t[e].text) = "" /\ Len(t[e].kids) = 0

\* the is_page_break test of the first pass
IsPageBreak(t, e) ==
    \/ IsEmptyParagraph(t, e)
    \/ Lower(AttrGet(t[e].attrib, "class", "")) \in PageBreakClasses
    \/ Contains(Lower(AttrGet(t[e].attrib, "style", "")), "page-break")
    \/ Contains(Lower(AttrGet(t[e].attrib, "style", "")), "pagebreak")

EarlyLimit == 3

\* the is_before_chapter decision of the first pass; i is the 0-based position
\* of the paragraph in the list of all paragraphs of the document
IsBeforeChapter(t, e, i) ==
    LET next == GetNext(t, e)
        parent == GetParent(t, e)
    IN \/ IsH1H2(t, next) /\ (HasChapterKeyword(t, next) \/ i < EarlyLimit)
       \/ /\ parent # None
          /\ InSeq(t[parent].kids, e)
          /\ IndexOf(t[parent].kids, e) - 1 < EarlyLimit
          /\ IsH1H2(t, next)

\* paragraphs_to_remove
PageBreaksToRemove(t) ==
    LET ps == XPathTags(t, {"p"})
        idx == SelectSeq([i \in 1..Len(ps) |-> i],
                         LAMBDA i : IsPageBreak(t, ps[i]) /\ ~IsBeforeChapter(t, ps[i], i - 1))
    IN [k \in 1..Len(idx) |-> ps[idx[k]]]

RECURSIVE EmptyRunEnd(_, _, _)
\* "Count consecutive empty paragraphs": the first index past the run
EmptyRunEnd(t, ps, i) ==
    IF i <= Len(ps) /\ IsEmptyParagraph(t, ps[i]) THEN EmptyRunEnd(t, ps, i + 1) ELSE i

RECURSIVE RemoveRun(_, _, _, _, _)
\* "for j in range(empty_count): parent.remove(paragraphs[start_idx + j])";
\* r = [t, err]: remove raises ValueError for an element that is no child
RemoveRun(r, parent, ps, i, j) ==
    IF i >= j \/ r.err THEN r
    ELSE IF CanRemove(r.t, parent, ps[i])
    THEN RemoveRun([r EXCEPT !.t = Remove(r.t, parent, ps[i])], parent, ps, i + 1, j)
    ELSE [r EXCEPT !.err = TRUE]

\* a new <hr class="scene-break"/>
NewSceneBreak(t) == [NewElement(t, "hr") EXCEPT ![NewId(t)].attrib = [class |-> "scene-break"]]

MinEmptyRun == 2

\* "parent.insert(start_idx, hr); scene_breaks_created += 1; changed = True" after
\* the removals rm = [t, err]; hr is the element made before them, start_idx = i - 1
\* is the 0-based index of the run's first paragraph in the list of all paragraphs
SceneInserted(r, rm, parent, i, hr) ==
    IF rm.err THEN [r EXCEPT !.err = TRUE]
    ELSE [r EXCEPT !.t = InsertChild(rm.t, parent, i - 1, hr),
                   !.scene = @ + 1, !.changed = TRUE]

\* "Replace 2+ empty paragraphs with <hr>" for the run ps[i..j-1]
SceneStep(r, ps, i, j) ==
    IF j - i >= MinEmptyRun /\ GetParent(r.t, ps[i]) # None
    THEN SceneInserted(r,
                       RemoveRun([t |-> NewSceneBreak(r.t), err |-> FALSE],
                                 GetParent(r.t, ps[i]), ps, i, j),
                       GetParent(r.t, ps[i]), i, NewId(r.t))
    ELSE r

RECURSIVE SceneLoop(_, _, _)
RECURSIVE SceneRun(_, _, _, _)
\* the second pass, "while i < len(paragraphs)"; r = [t, scene, removed, changed,
\* err], i is 1-based here (paragraphs[i - 1] of the source)
SceneLoop(r, ps, i) ==
    IF i > Len(ps) \/ r.err THEN r ELSE SceneRun(r, ps, i, EmptyRunEnd(r.t, ps, i))
\* the run ps[i..j-1] counted, then "if i < len(paragraphs): i += 1"
SceneRun(r, ps, i, j) ==
    SceneLoop(SceneStep(r, ps, i, j), ps, IF j <= Len(ps) THEN j + 1 ELSE j)

MinBrRun == 3

\* count(following-sibling::br) of the XPath
FollowingBrs(t, e) ==
    LET p == t[e].parent IN
    IF p = None THEN 0
    ELSE Cardinality({j \in (IndexOf(t[p].kids, e) + 1)..Len(t[p].kids) : t[t[p].kids[j]].tag = "br"})

\* tree.xpath("//br[count(following-sibling::br) >= 2]")
BrRunStarts(t) ==
    SelectSeq(Preorder(t, Root), LAMBDA e : t[e].tag = "br" /\ FollowingBrs(t, e) >= MinBrRun - 1)

RECURSIVE BrCount(_, _)
\* "Count consecutive <br/> tags" from e on, following getnext()
BrCount(t, e) ==
    LET next == GetNext(t, e) IN
    IF next # None /\ t[next].tag = "br" THEN 1 + BrCount(t, next) ELSE 1

RECURSIVE RemoveNextBrs(_, _, _)
\* "for _ in range(n): next_br = e.getnext(); if next_br is a br: parent.remove(next_br)"
RemoveNextBrs(t, e, n) ==
    IF n = 0 THEN t
    ELSE LET next == GetNext(t, e) IN
         RemoveNextBrs(IF next # None /\ t[next].tag = "br"
                       THEN Remove(t, GetParent(t, next), next)
                       ELSE t,
                       e, n - 1)

\* one turn of "for br in br_sequences"; r = [t, scene, removed, changed]
BrStep(r, br) ==
    LET parent == GetParent(r.t, br)
        n == BrCount(r.t, br)
        before == IsChapterHeading(r.t, GetNext(r.t, br))
        hr == NewId(r.t)
    IN IF parent = None \/ n < MinBrRun THEN r
       ELSE IF ~before
       THEN [r EXCEPT !.t = RemoveNextBrs(ReplaceChild(NewSceneBreak(r.t), parent, br, hr),
                                          hr, n - 1),
                      !.scene = @ + 1, !.changed = TRUE]
       ELSE [r EXCEPT !.t = RemoveNextBrs(r.t, br, n - 1),
                      !.removed = @ + (n - 1), !.changed = TRUE]

RECURSIVE BrLoop(_, _, _)
BrLoop(r, brs, i) == IF i > Len(brs) THEN r ELSE BrLoop(BrStep(r, brs[i]), brs, i + 1)

\* the declarations the last pass deletes from a style attribute, in order
PageBreakDecls ==
    <<"page-break-before: always;", "page-break-after: always;",
      "page-break-before:always;", "page-break-after:always;",
      "pagebreak: always;", "pagebreak:always;">>

RECURSIVE StripDecls(_, _)
StripDecls(style, k) ==
    IF k > Len(PageBreakDecls) THEN style
    ELSE StripDecls(ReplaceAll(style, PageBreakDecls[k]), k + 1)

\* tree.xpath("//*[contains(@style, 'page-break') or contains(@style, 'pagebreak')]")
StyledPageBreaks(t) ==
    SelectSeq(Preorder(t, Root),
              LAMBDA e : LET st == AttrGet(t[e].attrib, "style", "") IN
                         Contains(st, "page-break") \/ Contains(st, "pagebreak"))

\* one turn of "for elem in elements_with_page_break"; r = [t, removed, changed]
StyleStep(r, e) ==
    LET style == AttrGet(r.t[e].attrib, "style", "")
        newStyle == StripDecls(style, 1)
    IN IF IsChapterHeading(r.t, GetNext(r.t, e)) \/ newStyle = style THEN r
       ELSE [r EXCEPT !.t = [r.t EXCEPT ![e].attrib =
                                IF Strip(newStyle) # "" THEN AttrSet(@, "style", newStyle)
                                ELSE AttrPop(@, "style")],
                      !.removed = @ + 1, !.changed = TRUE]

RECURSIVE StyleLoop(_, _, _)
StyleLoop(r, es, i) == IF i > Len(es) THEN r ELSE StyleLoop(StyleStep(r, es[i]), es, i + 1)

\* "Remove identified page breaks"
PagePass(r) == RemoveEach(r, PageBreaksToRemove(r.t), 1)
\* "Find sequences of empty paragraphs (2+)"
ScenePass(r) == SceneLoop(r, XPathTags(r.t, {"p"}), 1)
\* "Find sequences of 3+ <br/> tags"; skipped once an lxml call has raised
BrPass(r) == IF r.err THEN r ELSE BrLoop(r, BrRunStarts(r.t), 1)
\* "Remove CSS page-break properties from non-chapter elements"
StylePass(r) == IF r.err THEN r ELSE StyleLoop(r, StyledPageBreaks(r.t), 1)

\* "if changed: write"; after an exception nothing is written
BreaksResult(r) ==
    [t |-> r.t, c |-> <<r.scene, r.removed>>, write |-> r.changed /\ ~r.err, err |-> r.err]

\* normalize_context_breaks, the body of the try block for one tree; err is set
\* when an lxml call raised, the counters then hold what was counted before it
BreaksTree(t, c) ==
    BreaksResult(StylePass(BrPass(ScenePass(PagePass(
        [t |-> t, scene |-> c[1], removed |-> c[2], changed |-> FALSE, err |-> FALSE])))))

(***************************************************************************)
(* css_processor.py, rules/css_cleanup.py.  A stylesheet is the list tinycss2 *)
(* parse_stylesheet returns: qualified rules and at-rules with a prelude and *)
(* a content, the content being the component values (tokens) between the  *)
(* braces; an at-rule without a block has content None.                     *)
(***************************************************************************)
Tok(type, value) == [type |-> type, value |-> value]
CssRule(type, prelude, hasBlock, content) ==
    [type |-> type, prelude |-> prelude, hasBlock |-> hasBlock, content |-> content]

\* parse_css: parse_stylesheet(skip_comments=True, skip_whitespace=True)
ParseCss(items) == SelectSeq(items, LAMBDA it : it.type \notin {"whitespace", "comment"})

RECURSIVE JoinRules(_)
\* serialize_css: "\n".join(rule texts)
JoinRules(rules) ==
    IF Len(rules) <= 1 THEN rules
    ELSE <<Head(rules), CssRule("whitespace", "\n", FALSE, <<>>)>> \o JoinRules(Tail(rules))
SerializeCss(rules) == JoinRules(rules)

\* hasattr(rule, "prelude"), hasattr(rule, "content")
RuleHasPrelude(rule) == rule.type \in {"qualified-rule", "at-rule"}
RuleHasContent(rule) == rule.type \in {"qualified-rule", "at-rule"}

\* hasattr(decl, "name"): of the component values only a function block has a name
TokHasName(tok) == tok.type = "function"
TokName(tok) == tok.value
\* hasattr(decl, "value"): a function block has arguments, not a value
TokHasValue(tok) == tok.type # "function"

\* _get_selector_text
SelectorText(rule) == Strip(rule.prelude)

\* _is_absolute_size: an AttributeError on decl.value is swallowed, giving False
IsAbsoluteSize(tok) ==
    TokHasValue(tok) /\ (Contains(Lower(tok.value), "px") \/ Contains(Lower(tok.value), "pt"))

DotCount(s) == Cardinality({i \in 1..Len(s) : CharAt(s, i) = "."})
RECURSIVE DigitsLessThan(_, _)
\* the digit string a is, as a decimal fraction 0.a, less than 0.b
DigitsLessThan(a, b) ==
    IF b = "" THEN FALSE
    ELSE IF a = "" THEN \E i \in 1..Len(b) : CharAt(b, i) # "0"
    ELSE LET x == IndexOf([i \in 1..10 |-> CharAt(DigitChars, i)], Head(a))
             y == IndexOf([i \in 1..10 |-> CharAt(DigitChars, i)], Head(b))
         IN x < y \/ (x = y /\ DigitsLessThan(Tail(a), Tail(b)))
RECURSIVE AllZeroChars(_)
AllZeroChars(s) == s = "" \/ (Head(s) = "0" /\ AllZeroChars(Tail(s)))
\* float(v) < 1.2 for a string of digits with exactly one or no dot
DecimalBelowLimit(v) ==
    LET d == IF DotCount(v) = 1 THEN CHOOSE i \in 1..Len(v) : CharAt(v, i) = "." ELSE Len(v) + 1
        whole == SubSeq(v, 1, d - 1)
        frac == SubSeq(v, d + 1, Len(v))
        wholeIsOne == whole # "" /\ CharAt(whole, Len(whole)) = "1"
                      /\ AllZeroChars(SubSeq(whole, 1, Len(whole) - 1))
    IN AllZeroChars(whole) \/ (wholeIsOne /\ DigitsLessThan(frac, "2"))

\* _is_fixed_line_height: float() raising ValueError is swallowed, giving False
IsFixedLineHeight(tok) ==
    /\ TokHasValue(tok)
    /\ LET v == Lower(tok.value)
           digits == ReplaceAll(v, ".")
       IN \/ Contains(v, "px")
          \/ Contains(v, "pt")
          \/ digits # "" /\ AllDigitChars(digits) /\ DotCount(v) <= 1 /\ DecimalBelowLimit(v)

\* _is_flex_or_grid
IsFlexOrGrid(tok) ==
    TokHasValue(tok) /\ (Contains(Lower(tok.value), "flex") \/ Contains(Lower(tok.value), "grid"))

\* the four list comprehensions: which entries of rule.content are dropped
DropsFontSize(tok) == TokHasName(tok) /\ TokName(tok) = "font-size" /\ IsAbsoluteSize(tok)
DropsLineHeight(tok) == TokHasName(tok) /\ TokName(tok) = "line-height" /\ IsFixedLineHeight(tok)
DropsDisplay(tok) == TokHasName(tok) /\ TokName(tok) = "display" /\ IsFlexOrGrid(tok)
DropsFontFamily(tok) == TokHasName(tok) /\ TokName(tok) = "font-family"

Drops(pass, tok) ==
    CASE pass = "font-size" -> DropsFontSize(tok)
      [] pass = "line-height" -> DropsLineHeight(tok)
      [] pass = "display" -> DropsDisplay(tok)
      [] OTHER -> DropsFontFamily(tok)

\* whether a pass looks at the rule at all
PassApplies(pass, rule) ==
    IF pass = "font-size"
    THEN RuleHasPrelude(rule) /\ SelectorText(rule) \in {"body", "html"} /\ RuleHasContent(rule)
    ELSE RuleHasContent(rule)

RECURSIVE CssPass(_, _, _)
\* one "for rule in rules" loop; r = [rules, removed, changed, err];
\* len(rule.content) raises TypeError when the content is None
CssPass(r, pass, k) ==
    IF k > Len(r.rules) \/ r.err THEN r
    ELSE LET rule == r.rules[k] IN
         IF ~PassApplies(pass, rule) THEN CssPass(r, pass, k + 1)
         ELSE IF ~rule.hasBlock THEN [r EXCEPT !.err = TRUE]
         ELSE LET kept == SelectSeq(rule.content, LAMBDA tok : ~Drops(pass, tok))
                  n == Len(rule.content) - Len(kept)
              IN CssPass([rules |-> [r.rules EXCEPT ![k].content = kept],
                          removed |-> r.removed + n,
                          changed |-> r.changed \/ n > 0,
                          err |-> FALSE],
                         pass, k + 1)

SafePasses == <<"font-size", "line-height", "display">>
AggressivePasses == <<"font-family">>

RECURSIVE CssPasses(_, _, _)
CssPasses(r, passes, i) ==
    IF i > Len(passes) THEN r ELSE CssPasses(CssPass(r, passes[i], 1), passes, i + 1)

\* simplify_css_safe / simplify_css_aggressive, the body of the try block for
\* one parsed stylesheet
CssRules(rules, passes, removed) ==
    CssPasses([rules |-> rules, removed |-> removed, changed |-> FALSE, err |-> FALSE],
              passes, 1)

(***************************************************************************)
(* models.py: EpubBook.  reporting.py: Reporter.                           *)
(***************************************************************************)
XhtmlType == "application/xhtml+xml"
CssType == "text/css"

\* self.manifest_items.get(idref): the dict holds one item per id
ManifestGet(book, id) ==
    SelectSeq(book.manifest_items, LAMBDA m : m.id = id)

\* a listing taken from the manifest: every content document, in manifest order
XhtmlOfManifest(book) ==
    LET keep == SelectSeq(book.manifest_items, LAMBDA m : m.media_type = XhtmlType)
    IN [i \in 1..Len(keep) |-> keep[i].href]

\* EpubBook.get_xhtml_files
GetXhtmlFiles(book) ==
    LET keep == SelectSeq(book.spine_items,
                          LAMBDA sp : LET m == ManifestGet(book, sp.idref) IN
                                      Len(m) > 0 /\ m[1].media_type = XhtmlType)
    IN [i \in 1..Len(keep) |-> keep[i].href]

\* EpubBook.get_css_files
GetCssFiles(book) ==
    LET keep == SelectSeq(book.manifest_items, LAMBDA m : m.media_type = CssType)
    IN [i \in 1..Len(keep) |-> keep[i].href]

\* Reporter.__init__
NewReporter == [counters |-> [k \in {} |-> 0], changes |-> <<>>]

\* Reporter.increment
Increment(rep, category, count) ==
    [rep EXCEPT !.counters =
        [k \in (DOMAIN @) \cup {category} |->
            (IF k \in DOMAIN @ THEN @[k] ELSE 0) + (IF k = category THEN count ELSE 0)]]

\* a change record: the description is kept as its message kind and the numbers
\* formatted into it
Change(file, kind, a, b) == [file |-> file, kind |-> kind, a |-> a, b |-> b]

\* Reporter.log_change
LogChange(rep, change) == [rep EXCEPT !.changes = Append(@, change)]

\* Reporter.get_summary
GetSummary(rep) ==
    [counters |-> rep.counters,
     changes |-> rep.changes,
     total_files_modified |-> Cardinality({rep.changes[i].file : i \in 1..Len(rep.changes)})]

(***************************************************************************)
(* The files of the extracted EPUB.  A file is missing, not decodable as    *)
(* UTF-8, a content document or a stylesheet.                               *)
(***************************************************************************)
EmptyDoc == Elem("body", NoAttrib, "", <<>>, "")
XhtmlFile(doc) == [kind |-> "xhtml", doc |-> doc, sheet |-> <<>>]
CssFile(sheet) == [kind |-> "css", doc |-> EmptyDoc, sheet |-> sheet]
MissingFile == [kind |-> "missing", doc |-> EmptyDoc, sheet |-> <<>>]
UndecodableFile == [kind |-> "undecodable", doc |-> EmptyDoc, sheet |-> <<>>]

\* path.exists()
Exists(files, path) == files[path].kind # "missing"
\* read_text(encoding="utf-8") raises UnicodeDecodeError
Readable(files, path) == files[path].kind # "undecodable"

(***************************************************************************)
(* The rules as run_repair calls them: rule(book, reporter).               *)
(***************************************************************************)
RuleNames == {"normalize_headings", "normalize_paragraphs_and_indents", "normalize_lists",
              "normalize_context_breaks", "normalize_images", "simplify_css_safe",
              "simplify_css_aggressive"}
CssRuleNames == {"simplify_css_safe", "simplify_css_aggressive"}

\* the categories a rule increments when it returns
RuleCategories(rule) ==
    CASE rule = "normalize_headings" ->
             <<"headings.converted_fake_headings", "headings.fixed_nesting">>
      [] rule = "normalize_paragraphs_and_indents" ->
             <<"paragraphs.converted_divs", "paragraphs.removed_br_breaks">>
      [] rule = "normalize_lists" -> <<"lists.converted_paragraphs">>
      [] rule = "normalize_context_breaks" ->
             <<"breaks.normalized_scene_breaks", "breaks.removed_page_breaks">>
      [] rule = "normalize_images" -> <<"images.added_alt">>
      [] rule = "simplify_css_safe" -> <<"css.removed_properties", "css.modified_properties">>
      [] OTHER -> <<"css.removed_font_families", "css.removed_font_faces">>

\* the try block of a rule on one parsed tree: c = <<count, count>> are the rule's
\* running counters; the result says whether the rule writes the file back
\* and logs its summary line, or whether the block raised
TreeStep(rule, t, c) ==
    CASE rule = "normalize_headings" -> HeadingsTree(t, c)
      [] rule = "normalize_paragraphs_and_indents" -> ParagraphsTree(t, c)
      [] rule = "normalize_lists" -> ListsTree(t, c)
      [] rule = "normalize_context_breaks" -> BreaksTree(t, c)
      [] OTHER -> ImagesTree(t, c)

SheetResult(r) ==
    [rules |-> r.rules, c |-> <<r.removed, 0>>, write |-> r.changed /\ ~r.err, err |-> r.err]

\* the try block of a stylesheet rule on one parsed stylesheet
SheetStep(rule, rules, c) ==
    SheetResult(CssRules(rules, IF rule = "simplify_css_safe" THEN SafePasses
                                ELSE AggressivePasses, c[1]))

\* the files a rule iterates over
RuleFiles(rule, book) ==
    IF rule \in CssRuleNames THEN GetCssFiles(book) ELSE GetXhtmlFiles(book)

\* the end of the try block: the error line, or the write-back and the summary line
Logged(s, rule, path, r) ==
    IF r.err THEN LogChange(s.rep, Change(path, "error", 0, 0))
    ELSE IF r.write THEN LogChange(s.rep, Change(path, rule, r.c[1], r.c[2]))
    ELSE s.rep

TreeDone(s, rule, path, r) ==
    [s EXCEPT !.files = IF r.write THEN [@ EXCEPT ![path] = XhtmlFile(SerializeTree(r.t))]
                        ELSE @,
              !.rep = Logged(s, rule, path, r),
              !.c = r.c]

SheetDone(s, rule, path, r) ==
    [s EXCEPT !.files = IF r.write THEN [@ EXCEPT ![path] = CssFile(SerializeCss(r.rules))]
                        ELSE @,
              !.rep = Logged(s, rule, path, r),
              !.c = r.c]

\* one turn of a rule's "for path in files" loop, for a file that exists;
\* s = [files, rep, c, raised]
FileStep(rule, s, path) ==
    IF ~Readable(s.files, path)
    THEN [s EXCEPT !.rep = LogChange(@, Change(path, "error", 0, 0))]
    ELSE IF rule \in CssRuleNames
    THEN SheetDone(s, rule, path, SheetStep(rule, ParseCss(s.files[path].sheet), s.c))
    ELSE TreeDone(s, rule, path, TreeStep(rule, ParseTree(s.files[path].doc), s.c))

\* "if not path.exists()": normalize_headings logs the file, the other rules go on
Skipped(rule, s, path) ==
    IF rule = "normalize_headings"
    THEN [s EXCEPT !.rep = LogChange(@, Change(path, "not-found", 0, 0))]
    ELSE s

RECURSIVE RuleLoop(_, _, _, _, _)
\* "for path in files"; failAt > 0: path.exists() of the failAt-th file raises
\* OSError, which no try block of the rule covers
RuleLoop(rule, s, paths, i, failAt) ==
    IF i > Len(paths) THEN s
    ELSE IF i = failAt THEN [s EXCEPT !.raised = TRUE]
    ELSE IF ~Exists(s.files, paths[i]) THEN RuleLoop(rule, Skipped(rule, s, paths[i]), paths,
                                                     i + 1, failAt)
    ELSE RuleLoop(rule, FileStep(rule, s, paths[i]), paths, i + 1, failAt)

RECURSIVE IncrementAll(_, _, _, _)
IncrementAll(rep, cats, c, i) ==
    IF i > Len(cats) THEN rep ELSE IncrementAll(Increment(rep, cats[i], c[i]), cats, c, i + 1)

\* the reporter.increment calls at the end of a rule, not reached when it raised
Returned(rule, s) ==
    [files |-> s.files,
     rep |-> IF s.raised THEN s.rep ELSE IncrementAll(s.rep, RuleCategories(rule), s.c, 1),
     raised |-> s.raised]

\* rule(book, reporter): the files and the reporter after the call, and whether
\* the call raised
CallRule(rule, book, files, rep, failAt) ==
    Returned(rule, RuleLoop(rule, [files |-> files, rep |-> rep, c |-> <<0, 0>>,
                                   raised |-> FALSE],
                            RuleFiles(rule, book), 1, failAt))

(***************************************************************************)
(* epub_upgrade: the extracted package.  The OPF is the package element    *)
(* with its version, its language attributes, the metadata, the manifest   *)
(* and the spine; "" stands for an absent attribute.  xmlLang is the       *)
(* attribute in the XML namespace as a parser reads it; plainXmlLang is an *)
(* attribute set under the literal key "xml:lang".                         *)
(***************************************************************************)
NcxType == "application/x-dtbncx+xml"
OpfDir == "OEBPS/"
NavHref == "nav.xhtml"
NcxHref == "toc.ncx"
DocHref == "ch1.xhtml"

Item(id, href, media_type, properties, ns) ==
    [id |-> id, href |-> href, media_type |-> media_type, properties |-> properties,
     ns |-> ns]
\* a metadata child: qualified means the tag is in the dc namespace, otherwise
\* the tag is the literal string "dc:<name>"
Meta(name, text, qualified) == [name |-> name, text |-> text, qualified |-> qualified]
Metadata(present, ns, items) == [present |-> present, ns |-> ns, items |-> items]

\* ET.parse of the OPF file: what was written under literal names is read
\* back as namespaced
ParseOpf(file) ==
    [file.root EXCEPT
        !.xmlLang = IF file.root.plainXmlLang # "" THEN file.root.plainXmlLang ELSE @,
        !.plainXmlLang = "",
        !.metadata.items = [k \in 1..Len(@) |-> [@[k] EXCEPT !.qualified = TRUE]]]

\* the serializer declares xmlns:dc only when a tag of the tree is in the dc namespace
DeclaresDc(root) == \E k \in 1..Len(root.metadata.items) : root.metadata.items[k].qualified
UsesLiteralDc(root) == \E k \in 1..Len(root.metadata.items) : ~root.metadata.items[k].qualified

\* save_opf: opf_tree.write; the text written is not well-formed when an
\* attribute name occurs twice or a prefix is not declared
SaveOpf(root) ==
    [kind |-> IF \/ root.xmlLang # "" /\ root.plainXmlLang # ""
                 \/ UsesLiteralDc(root) /\ ~DeclaresDc(root)
              THEN "malformed" ELSE "xml",
     root |-> root]

\* path.exists() for a manifest href, resolved against the OPF directory
HrefExists(dir, href) ==
    CASE href = NcxHref -> dir.ncx.kind # "missing"
      [] href = NavHref -> dir.nav.kind # "missing"
      [] href = DocHref -> dir.doc.kind # "missing"
      [] OTHER -> FALSE

\* a detection without the split: the whole attribute value
WholeVersion(v) == v

RECURSIVE MajorVersion(_)
\* version.split(".")[0]
MajorVersion(v) == IF v = "" \/ Head(v) = "." THEN "" ELSE Head(v) \o MajorVersion(Tail(v))

\* a detection that hands back the raw attribute as the normalized version
DetectWithoutNormalizing(root) ==
    [raised |-> root.tag # "package" \/ root.version = "",
     normalized |-> root.version, raw |-> root.version]

\* detect_epub_version: raises when the root is not a package element or has no
\* version attribute; otherwise (normalized, raw)
DetectEpubVersion(root) ==
    IF root.tag # "package" \/ root.version = ""
    THEN [raised |-> TRUE, normalized |-> "", raw |-> ""]
    ELSE [raised |-> FALSE, normalized |-> MajorVersion(root.version), raw |-> root.version]

\* epub_upgrade Reporter
NewUpgradeReporter ==
    [original_version |-> "", raw_original_version |-> "", new_version |-> "",
     nav_converted |-> FALSE, ncx_source |-> "", warnings |-> <<>>, notes |-> <<>>]
SetVersions(rep, original, raw, new) ==
    [rep EXCEPT !.original_version = original, !.raw_original_version = raw,
                !.new_version = IF new # "" THEN new ELSE original]
MarkNavConverted(rep, src) == [rep EXCEPT !.nav_converted = TRUE, !.ncx_source = src]
Warn(rep, message) == [rep EXCEPT !.warnings = Append(@, message)]
Note(rep, message) == [rep EXCEPT !.notes = Append(@, message)]

(***************************************************************************)
(* nav_conversion.py.  A navPoint: ok says it has a navLabel with a text   *)
(* element and a content element.  A list item of the navigation document: *)
(* the link's href and text, and the nested ol if one was created.         *)
(***************************************************************************)
NavPoint(ok, text, src, kids) == [ok |-> ok, text |-> text, src |-> src, kids |-> kids]
Li(href, text, hasOl, ol) == [href |-> href, text |-> text, hasOl |-> hasOl, ol |-> ol]

\* find_ncx_in_manifest: the first opf:item of the NCX media type whose file exists
NcxItems(dir, root) ==
    SelectSeq(root.manifest, LAMBDA it : /\ it.ns
                                         /\ it.media_type = NcxType
                                         /\ it.href # ""
                                         /\ HrefExists(dir, it.href))
FindNcxInManifest(dir, root) ==
    IF ~root.hasManifest \/ NcxItems(dir, root) = <<>> THEN ""
    ELSE NcxItems(dir, root)[1].href

RECURSIVE Descendants(_)
\* findall(".//ncx:navPoint"): every navPoint below the element, in document order
Descendants(points) ==
    IF points = <<>> THEN <<>>
    ELSE <<Head(points)>> \o Descendants(Head(points).kids) \o Descendants(Tail(points))

RECURSIVE ConvertNavPoints(_)
\* _convert_nav_points: one li per navPoint of the list that has label and content,
\* with a nested ol for its navPoint children
ConvertNavPoints(points) ==
    IF points = <<>> THEN <<>>
    ELSE LET np == Head(points) IN
         (IF np.ok
          THEN <<Li(np.src, np.text, np.kids # <<>>, ConvertNavPoints(np.kids))>>
          ELSE <<>>) \o ConvertNavPoints(Tail(points))

\* the navPoint list convert_ncx_to_nav_xhtml hands to _convert_nav_points
TopLevelNavPoints(navMap) == Descendants(navMap)

\* convert_ncx_to_nav_xhtml: raises for a malformed NCX or one without navMap;
\* otherwise writes nav.xhtml next to the OPF
ConvertNcxToNavXhtml(dir) ==
    IF dir.ncx.kind # "ncx" \/ ~dir.ncx.hasNavMap
    THEN [raised |-> TRUE, dir |-> dir]
    ELSE [raised |-> FALSE,
          dir |-> [dir EXCEPT !.nav = [kind |-> "nav",
                                       ol |-> ConvertNavPoints(TopLevelNavPoints(dir.ncx.navMap))]]]

\* the position of the first opf:item with properties == "nav", or 0
FirstNavItem(manifest) ==
    IF \E k \in 1..Len(manifest) : manifest[k].ns /\ manifest[k].properties = "nav"
    THEN CHOOSE k \in 1..Len(manifest) :
            /\ manifest[k].ns /\ manifest[k].properties = "nav"
            /\ \A j \in 1..(k - 1) : ~(manifest[j].ns /\ manifest[j].properties = "nav")
    ELSE 0

\* add_nav_to_manifest: raises without manifest; updates the existing nav item or
\* appends an item element without namespace
AddNavToManifest(root) ==
    IF ~root.hasManifest THEN [raised |-> TRUE, root |-> root]
    ELSE LET k == FirstNavItem(root.manifest) IN
         [raised |-> FALSE,
          root |-> IF k > 0
                   THEN [root EXCEPT !.manifest[k].href = NavHref,
                                     !.manifest[k].media_type = XhtmlType]
                   ELSE [root EXCEPT !.manifest =
                            Append(@, Item("nav", NavHref, XhtmlType, "nav", FALSE))]]

(***************************************************************************)
(* upgrade.py                                                              *)
(***************************************************************************)
DefaultLang == "en"

\* root.find(".//opf:metadata", ns) is not None
HasOpfMetadata(root) == root.metadata.present /\ root.metadata.ns

\* metadata.find("dc:<name>", ns): the children in the dc namespace with that name
DcElements(root, name) ==
    SelectSeq(root.metadata.items, LAMBDA m : m.qualified /\ m.name = name)

\* step 2: the language attribute of the package element
EnsureLang(s) ==
    IF s.root.plainXmlLang # "" \/ s.root.lang # "" THEN s
    ELSE IF HasOpfMetadata(s.root)
    THEN LET ls == DcElements(s.root, "language") IN
         IF ls # <<>> /\ ls[1].text # ""
         THEN [s EXCEPT !.root.plainXmlLang = Strip(ls[1].text)]
         ELSE [s EXCEPT !.root.plainXmlLang = DefaultLang,
                        !.rep = Warn(@, "No language found, defaulting to 'en'")]
    ELSE [s EXCEPT !.root.plainXmlLang = DefaultLang,
                   !.rep = Warn(@, "No metadata found, defaulting language to 'en'")]

\* step 3: ET.SubElement(root, "metadata", ...) when no opf:metadata is found
EnsureMetadata(s) ==
    IF HasOpfMetadata(s.root) THEN s
    ELSE [s EXCEPT !.root.metadata = Metadata(TRUE, FALSE, <<>>),
                   !.rep = Warn(@, "No metadata element found, created empty one")]

\* step 3: one required field; the element is appended under the literal tag
EnsureField(s, present, name, text, warning) ==
    IF present THEN s
    ELSE [s EXCEPT !.root.metadata.items = Append(@, Meta(name, text, FALSE)),
                   !.rep = Warn(@, warning)]

EnsureFields(s) ==
    LET has_title == DcElements(s.root, "title") # <<>>
        has_identifier == DcElements(s.root, "identifier") # <<>>
        has_language == DcElements(s.root, "language") # <<>>
        s1 == EnsureField(s, has_title, "title", "Unknown Title",
                          "Missing dc:title, added placeholder")
        s2 == EnsureField(s1, has_identifier, "identifier", "unknown-id",
                          "Missing dc:identifier, added placeholder")
    IN EnsureField(s2, has_language, "language", DefaultLang,
                   "Missing dc:language, added placeholder 'en'")

\* step 4: navigation conversion.  canonical: the extraction root is its own
\* resolve(), so that the resolved NCX path is relative to it
ConvertNavigation(s, canonical) ==
    LET ncx == FindNcxInManifest(s.dir, s.root) IN
    IF ncx # ""
    THEN LET c == ConvertNcxToNavXhtml(s.dir)
             m == AddNavToManifest(s.root)
         IN IF c.raised
            THEN [s EXCEPT !.rep = Warn(@, "Failed to convert NCX to nav.xhtml")]
            ELSE IF m.raised
            THEN [s EXCEPT !.dir = c.dir,
                           !.rep = Warn(@, "Failed to convert NCX to nav.xhtml")]
            ELSE IF ~canonical
            THEN [s EXCEPT !.dir = c.dir, !.root = m.root,
                           !.rep = Warn(@, "Failed to convert NCX to nav.xhtml")]
            ELSE [s EXCEPT !.dir = c.dir, !.root = m.root,
                           !.rep = MarkNavConverted(@, OpfDir \o ncx)]
    ELSE IF HrefExists(s.dir, NavHref)
    THEN [s EXCEPT !.rep = Note(@, "nav.xhtml already exists, no conversion needed")]
    ELSE [s EXCEPT !.rep = Warn(@, "No NCX found and no nav.xhtml exists")]

\* manifest.find(".//opf:item[@id='idref']", ns)
ItemsWithId(root, idref) == SelectSeq(root.manifest, LAMBDA it : it.ns /\ it.id = idref)

\* the spine itemrefs whose item is a content document that exists
SpineDocs(s) ==
    SelectSeq(s.root.spine,
              LAMBDA idref : LET its == ItemsWithId(s.root, idref) IN
                             /\ its # <<>>
                             /\ its[1].media_type = XhtmlType
                             /\ its[1].href # ""
                             /\ HrefExists(s.dir, its[1].href))

\* _ensure_xhtml_lang on the content document; parse errors are swallowed
EnsureXhtmlLang(doc, lang) ==
    IF doc.kind = "xhtml" /\ doc.lang = "" THEN [doc EXCEPT !.lang = lang] ELSE doc

\* step 5
EnsureContentLang(s) ==
    IF ~s.root.hasSpine \/ ~s.root.hasManifest THEN s
    ELSE LET lang == IF s.root.plainXmlLang # "" THEN s.root.plainXmlLang
                     ELSE IF s.root.lang # "" THEN s.root.lang ELSE DefaultLang
         IN IF \E k \in 1..Len(SpineDocs(s)) :
                   ItemsWithId(s.root, SpineDocs(s)[k])[1].href = DocHref
            THEN [s EXCEPT !.dir.doc = EnsureXhtmlLang(@, lang)]
            ELSE s

\* upgrade_to_epub3(extracted_root, target_version, reporter, force_rewrite)
UpgradeToEpub3(dir, target_version, rep, force_rewrite, canonical) ==
    LET root == ParseOpf(dir.opf)
        v == DetectEpubVersion(root)
    IN IF v.normalized = "3" /\ ~force_rewrite
       THEN [dir |-> dir, rep |-> Note(rep, "Already EPUB 3, no upgrade needed")]
       ELSE LET s0 == [dir |-> dir, rep |-> rep,
                       root |-> [root EXCEPT !.version = target_version]]
                s == EnsureContentLang(ConvertNavigation(
                         EnsureFields(EnsureMetadata(EnsureLang(s0))), canonical))
            IN [dir |-> [s.dir EXCEPT !.opf = SaveOpf(s.root)], rep |-> s.rep]

(***************************************************************************)
(* rules/__init__.py, cli.py: run_repair.                                  *)
(***************************************************************************)
SAFE_RULES == <<"normalize_headings", "normalize_paragraphs_and_indents", "normalize_lists",
                "normalize_context_breaks", "normalize_images", "simplify_css_safe">>
\* an aggressive list that was written out by hand and lost the heading rule
AggressiveWithoutHeadings == Tail(SAFE_RULES) \o <<"simplify_css_aggressive">>
AGGRESSIVE_RULES == SAFE_RULES \o <<"simplify_css_aggressive">>

\* rules = AGGRESSIVE_RULES if mode == "aggressive" else SAFE_RULES
SelectRules(m) == IF m = "aggressive" THEN AGGRESSIVE_RULES ELSE SAFE_RULES

\* the except clause of the rule loop
RuleFailed(rep, rule) == LogChange(rep, Change("unknown", "rule-failed:" \o rule, 0, 0))

\* a loop whose except clause sits outside the "for": a raise ends the loop
AbortOnRaise(i, raised) == IF raised THEN Len(AGGRESSIVE_RULES) + 1 ELSE i + 1

\* the loop goes on to the next rule after a rule returned or raised
NextRule(i, raised) == i + 1

\* summary = reporter.get_summary(); summary["mode"] = mode
Summary(rep, m) ==
    LET g == GetSummary(rep) IN
    [counters |-> g.counters, changes |-> g.changes,
     total_files_modified |-> g.total_files_modified, mode |-> m]

VARIABLES
    book,       \* the EpubBook of the package: spine_items, manifest_items
    input,      \* the files of the input EPUB, by path
    files,      \* the files of the extraction directory of the current run
    reporter,   \* the Reporter of the current run or call
    pc,         \* "idle", or "rules" inside run_repair's rule loop
    mode,       \* the mode of the current run
    source,     \* what the current run was given: "input" or "previous"
    idx,        \* position of the rule loop in the rule list
    invoked,    \* the rules called so far in the current run, in order
    before,     \* the files and the reporter before the latest rule call
    runs,       \* the finished runs: mode, source, summary, output files
    failing,    \* the rules in which path.exists() raises, and at which file
    entries,    \* the modes or rule functions the environment calls
    reportPath, \* the --report path of the runs, "" for none
    listed,     \* what the latest call of book.get_xhtml_files returned
    package,    \* epub-upgrade: the files of the input EPUB
    args,       \* epub-upgrade: target_version, force_rewrite, dry_run, report
    canonical,  \* epub-upgrade: the temporary directory's path is its own resolve()
    extracted,  \* epub-upgrade: the files of the temporary directory
    upgradeReporter, \* epub-upgrade: the Reporter's data
    step,       \* epub-upgrade: position in main
    outputEpub, \* epub-upgrade: the output EPUB, if written
    reportJson, \* epub-upgrade: the JSON report, if written
    exitCode    \* epub-upgrade: what main returned, -1 before it returns

repairVars == <<book, input, files, reporter, pc, mode, source, idx, invoked, before, runs,
                failing, entries, reportPath, listed>>
upgradeVars == <<package, args, canonical, extracted, upgradeReporter, step, outputEpub,
                 reportJson, exitCode>>
vars == <<repairVars, upgradeVars>>

MaxRuns == 2
NoFailure == [rules |-> {}, at |-> 0]

FailAt(rule) == IF rule \in failing.rules THEN failing.at ELSE 0

\* run_repair up to the rule loop: extract the EPUB, build the book and the reporter,
\* select the rule list.  The input is the package itself or the output of the
\* previous run.
StartRepair ==
    /\ pc = "idle"
    /\ Len(runs) < MaxRuns
    /\ \E m \in entries, src \in {"input", "previous"} :
          /\ src = "previous" => Len(runs) > 0
          /\ mode' = m
          /\ source' = src
          /\ files' = IF src = "input" THEN input ELSE runs[Len(runs)].output
    /\ reporter' = NewReporter
    /\ pc' = "rules"
    /\ idx' = 1
    /\ invoked' = <<>>
    /\ before' = [files |-> files', reporter |-> NewReporter]
    /\ UNCHANGED <<book, input, runs, failing, entries, reportPath, listed>>
    /\ UNCHANGED upgradeVars

\* what run_repair holds after rule(book, reporter) returned or raised with r
RuleHandled(rule, r) ==
    /\ files' = r.files
    /\ reporter' = IF r.raised THEN RuleFailed(r.rep, rule) ELSE r.rep
    /\ idx' = NextRule(idx, r.raised)
    /\ invoked' = Append(invoked, rule)

\* one turn of "for rule in rules: try: rule(book, reporter) except ..."
ApplyRule ==
    /\ pc = "rules"
    /\ idx <= Len(SelectRules(mode))
    /\ RuleHandled(SelectRules(mode)[idx],
                   CallRule(SelectRules(mode)[idx], book, files, reporter,
                            FailAt(SelectRules(mode)[idx])))
    /\ before' = [files |-> files, reporter |-> reporter]
    /\ UNCHANGED <<book, input, pc, mode, source, runs, failing, entries, reportPath, listed>>
    /\ UNCHANGED upgradeVars

\* report_path.suffix.lower() == ".json"
IsJsonPath(path) ==
    Len(path) > 5 /\ Lower(SubSeq(path, Len(path) - 4, Len(path))) = ".json"

\* Reporter.write_json, Reporter.write_text: the file holds what get_summary
\* returns, as a JSON object or as text lines
WriteJson(rep) == [format |-> "json", data |-> GetSummary(rep)]
WriteText(rep) == [format |-> "text", data |-> GetSummary(rep)]

\* the report file of a run, if a report path was given
WriteReportFile(rep, path) ==
    IF path = "" THEN <<>>
    ELSE IF IsJsonPath(path) THEN <<WriteJson(rep)>> ELSE <<WriteText(rep)>>

\* after the loop: repackage_epub, the summary and the report
Repackage ==
    /\ pc = "rules"
    /\ idx > Len(SelectRules(mode))
    /\ runs' = Append(runs, [mode |-> mode, source |-> source, invoked |-> invoked,
                             given |-> IF source = "input" THEN input
                                       ELSE runs[Len(runs)].output,
                             summary |-> Summary(reporter, mode), output |-> files,
                             report |-> WriteReportFile(reporter, reportPath)])
    /\ pc' = "idle"
    /\ UNCHANGED <<book, input, files, reporter, mode, source, idx, invoked, before,
                   failing, entries, reportPath, listed>>
    /\ UNCHANGED upgradeVars

NextRepair == StartRepair \/ ApplyRule \/ Repackage

MaxCalls == 2

\* the caller of a rule function keeps the files and the reporter it has changed
RuleCalled(rule, r) ==
    /\ files' = r.files
    /\ reporter' = r.rep
    /\ invoked' = Append(invoked, rule)

\* a rule function called on its own with the book and a reporter
DirectCall ==
    /\ pc = "idle"
    /\ Len(invoked) < MaxCalls
    /\ \E rule \in entries :
          RuleCalled(rule, CallRule(rule, book, files, reporter, FailAt(rule)))
    /\ before' = [files |-> files, reporter |-> reporter]
    /\ UNCHANGED <<book, input, pc, mode, source, idx, runs, failing, entries, reportPath, listed>>
    /\ UNCHANGED upgradeVars

NextCall == DirectCall

\* a caller asks the book for its content documents
CallGetXhtmlFiles ==
    /\ pc = "idle"
    /\ ~listed.called
    /\ listed' = [called |-> TRUE, xhtml |-> GetXhtmlFiles(book)]
    /\ UNCHANGED <<book, input, files, reporter, pc, mode, source, idx, invoked, before,
                   runs, failing, entries, reportPath>>
    /\ UNCHANGED upgradeVars

NextBook == CallGetXhtmlFiles

(***************************************************************************)
(* epub_upgrade/cli.py: main.                                              *)
(***************************************************************************)
\* needs_upgrade = normalized_version != "3" or force_rewrite
NeedsUpgrade(normalized, force_rewrite) == normalized # "3" \/ force_rewrite

\* reporter.write_json(report_path) if a report path was given
WriteReport(rep) == IF args.report THEN <<rep>> ELSE <<>>

\* extract the input, load the OPF, detect the version; a malformed OPF or a
\* failed detection ends main with exit code 1
Detect ==
    /\ step = "start"
    /\ extracted' = package
    /\ LET v == DetectEpubVersion(ParseOpf(package.opf)) IN
       IF package.opf.kind # "xml" \/ v.raised
       THEN /\ step' = "done"
            /\ exitCode' = 1
            /\ UNCHANGED upgradeReporter
       ELSE /\ step' = "detected"
            /\ upgradeReporter' = SetVersions(NewUpgradeReporter, v.normalized, v.raw, "")
            /\ UNCHANGED exitCode
    /\ UNCHANGED <<package, args, canonical, outputEpub, reportJson>>
    /\ UNCHANGED repairVars

\* a dry run that copies the input to the output path before it returns
DryRunThatCopies ==
    /\ step = "detected"
    /\ args.dry_run
    /\ reportJson' = WriteReport(upgradeReporter)
    /\ outputEpub' = <<package>>
    /\ step' = "done"
    /\ exitCode' = 0
    /\ UNCHANGED <<package, args, canonical, extracted, upgradeReporter>>
    /\ UNCHANGED repairVars

\* --dry-run: report only
DryRun ==
    /\ step = "detected"
    /\ args.dry_run
    /\ reportJson' = WriteReport(upgradeReporter)
    /\ step' = "done"
    /\ exitCode' = 0
    /\ UNCHANGED <<package, args, canonical, extracted, upgradeReporter, outputEpub>>
    /\ UNCHANGED repairVars

\* already EPUB 3 and no --force-rewrite: copy the input to the output
CopyUnchanged ==
    /\ step = "detected"
    /\ ~args.dry_run
    /\ ~NeedsUpgrade(upgradeReporter.original_version, args.force_rewrite)
    /\ outputEpub' = <<package>>
    /\ upgradeReporter' = Note(upgradeReporter, "File already EPUB 3, copied unchanged")
    /\ step' = "summary"
    /\ UNCHANGED <<package, args, canonical, extracted, reportJson, exitCode>>
    /\ UNCHANGED repairVars

\* upgrade_to_epub3, set_versions with the target version, repackage_epub
Upgrade ==
    /\ step = "detected"
    /\ ~args.dry_run
    /\ NeedsUpgrade(upgradeReporter.original_version, args.force_rewrite)
    /\ LET r == UpgradeToEpub3(extracted, args.target_version, upgradeReporter,
                               args.force_rewrite, canonical)
       IN /\ extracted' = r.dir
          /\ outputEpub' = <<r.dir>>
          /\ upgradeReporter' = SetVersions(r.rep, upgradeReporter.original_version,
                                            upgradeReporter.raw_original_version,
                                            args.target_version)
    /\ step' = "summary"
    /\ UNCHANGED <<package, args, canonical, reportJson, exitCode>>
    /\ UNCHANGED repairVars

\* print_summary, the report, return 0
Finish ==
    /\ step = "summary"
    /\ reportJson' = WriteReport(upgradeReporter)
    /\ step' = "done"
    /\ exitCode' = 0
    /\ UNCHANGED <<package, args, canonical, extracted, upgradeReporter, outputEpub>>
    /\ UNCHANGED repairVars

NextUpgrade == Detect \/ DryRun \/ CopyUnchanged \/ Upgrade \/ Finish

\* upgrade_to_epub3 called on the extracted package with a new Reporter; what
\* load_opf or detect_epub_version raise leaves the call
CallUpgrade ==
    /\ step = "start"
    /\ IF package.opf.kind # "xml" \/ DetectEpubVersion(ParseOpf(package.opf)).raised
       THEN /\ step' = "raised"
            /\ UNCHANGED <<extracted, upgradeReporter>>
       ELSE LET r == UpgradeToEpub3(extracted, args.target_version, upgradeReporter,
                                    args.force_rewrite, canonical)
            IN /\ extracted' = r.dir
               /\ upgradeReporter' = r.rep
               /\ step' = "called"
    /\ UNCHANGED <<package, args, canonical, outputEpub, reportJson, exitCode>>
    /\ UNCHANGED repairVars

NextUpgradeCall == CallUpgrade

(***************************************************************************)
(* The packages the specifications start from.                             *)
(***************************************************************************)
MaxKids == 2

RECURSIVE SeqsUpTo(_, _)
\* the sequences over S of length at most n
SeqsUpTo(S, n) ==
    IF n = 0 THEN {<<>>}
    ELSE LET shorter == SeqsUpTo(S, n - 1) IN
         shorter \cup {Append(q, x) : q \in {r \in shorter : Len(r) = n - 1}, x \in S}

P(attrib, text) == Elem("p", attrib, text, <<>>, "")
Body(kids) == Elem("body", NoAttrib, "", kids, "")

FakeHeadingP == P([class |-> "heading1"], "Chapter One")
FakeHeadingDiv == Elem("div", [class |-> "heading1"], "Chapter One", <<>>, "")
TextP == P(NoAttrib, "Some text")
EmptyP == P(NoAttrib, "")

\* body { font-size: 12px; line-height: 1.0; font-family: serif }
BodySheet ==
    <<CssRule("qualified-rule", "body ", TRUE,
              <<Tok("ident", "font-size"), Tok("literal", ":"), Tok("dimension", "12px"),
                Tok("literal", ";"), Tok("ident", "line-height"), Tok("literal", ":"),
                Tok("number", "1.0"), Tok("literal", ";"), Tok("ident", "font-family"),
                Tok("literal", ":"), Tok("ident", "serif")>>)>>
\* @import "base.css"; p { font-family(serif) }
ImportSheet ==
    <<CssRule("at-rule", "base.css", FALSE, <<>>),
      CssRule("whitespace", " ", FALSE, <<>>),
      CssRule("qualified-rule", "p ", TRUE, <<Tok("function", "font-family")>>)>>
\* p { font-family(serif) display(flex) }
FunctionSheet ==
    <<CssRule("qualified-rule", "p ", TRUE,
              <<Tok("function", "font-family"), Tok("whitespace", " "),
                Tok("function", "display")>>)>>

\* a package with one content document in the spine and one stylesheet
OneFileBook ==
    [spine_items |-> <<[idref |-> "ch1", href |-> "ch1.xhtml"]>>,
     manifest_items |-> <<[id |-> "ch1", href |-> "ch1.xhtml", media_type |-> XhtmlType],
                          [id |-> "css", href |-> "style.css", media_type |-> CssType]>>]

OneFileInput(doc, sheet) ==
    [path \in {"ch1.xhtml", "style.css"} |->
        IF path = "ch1.xhtml" THEN XhtmlFile(doc) ELSE CssFile(sheet)]

\* the state of the repair tool before it is run
InitRepairWith(books, inputs, calls, failures, start, reports) ==
    /\ book \in books
    /\ reportPath \in reports
    /\ listed = [called |-> FALSE, xhtml |-> <<>>]
    /\ input \in inputs
    /\ files = IF start = "call" THEN input ELSE [path \in DOMAIN input |-> MissingFile]
    /\ reporter = NewReporter
    /\ pc = "idle"
    /\ mode = "safe"
    /\ source = "input"
    /\ idx = 1
    /\ invoked = <<>>
    /\ before = [files |-> files, reporter |-> NewReporter]
    /\ runs = <<>>
    /\ failing \in failures
    /\ entries = calls

\* the state of the upgrade tool before it is run
InitUpgradeWith(packages, argsets, roots) ==
    /\ package \in packages
    /\ args \in argsets
    /\ canonical \in roots
    /\ extracted = package
    /\ upgradeReporter = NewUpgradeReporter
    /\ step = "start"
    /\ outputEpub = <<>>
    /\ reportJson = <<>>
    /\ exitCode = -1

MaxNavPoints == 3
Letters == <<"A", "B", "C", "D", "E">>

RECURSIVE ForestsOfSize(_)
\* the navPoint forests with n navPoints
ForestsOfSize(n) ==
    IF n = 0 THEN {<<>>}
    ELSE UNION {{<<NavPoint(ok, "", "", kids)>> \o rest :
                    ok \in BOOLEAN, kids \in ForestsOfSize(k), rest \in ForestsOfSize(n - 1 - k)} :
                k \in 0..(n - 1)}

RECURSIVE LabelForest(_, _)
\* label and target of a navPoint name its position
LabelForest(f, prefix) ==
    [i \in 1..Len(f) |->
        NavPoint(f[i].ok, prefix \o Letters[i], prefix \o Letters[i] \o ".xhtml",
                 LabelForest(f[i].kids, prefix \o Letters[i]))]

NavMaps == {LabelForest(f, "") : f \in UNION {ForestsOfSize(n) : n \in 0..MaxNavPoints}}

NcxFile(navMap) == [kind |-> "ncx", hasNavMap |-> TRUE, navMap |-> navMap]
MissingNcx == [kind |-> "missing", hasNavMap |-> FALSE, navMap |-> <<>>]
MalformedNcx == [kind |-> "malformed", hasNavMap |-> FALSE, navMap |-> <<>>]
NoNavMapNcx == [kind |-> "ncx", hasNavMap |-> FALSE, navMap |-> <<>>]
FlatNcx == NcxFile(<<NavPoint(TRUE, "A", "A.xhtml", <<>>)>>)

NoNav == [kind |-> "missing", ol |-> <<>>]
ContentDoc(lang) == [kind |-> "xhtml", lang |-> lang]

NcxItem == Item("ncx", NcxHref, NcxType, "", TRUE)
DocItem == Item("ch1", DocHref, XhtmlType, "", TRUE)
NavItem == Item("toc", NavHref, XhtmlType, "nav", TRUE)
\* a navigation document that is also scripted
ScriptedNavItem == Item("toc", NavHref, XhtmlType, "nav scripted", TRUE)
\* an EPUB 2 contents page whose id is "nav"
TocPageItem == Item("nav", NavHref, XhtmlType, "", TRUE)
\* the item an earlier upgrade appended, as ET.parse reads it back
AddedNavItem == Item("nav", NavHref, XhtmlType, "nav", FALSE)

FullMetadata ==
    Metadata(TRUE, TRUE, <<Meta("title", "T", TRUE), Meta("identifier", "x", TRUE),
                           Meta("language", "fr", TRUE)>>)
NoMetadata == Metadata(FALSE, TRUE, <<>>)
EmptyMetadata == Metadata(TRUE, TRUE, <<>>)
TitleOnlyMetadata == Metadata(TRUE, TRUE, <<Meta("title", "T", TRUE)>>)

OpfRoot(version, xmlLang, metadata, hasManifest, manifest) ==
    [tag |-> "package", version |-> version, xmlLang |-> xmlLang, plainXmlLang |-> "",
     lang |-> "", metadata |-> metadata, hasManifest |-> hasManifest,
     manifest |-> manifest, hasSpine |-> TRUE, spine |-> <<"ch1">>]

Package(root, ncx, nav) ==
    [opf |-> [kind |-> "xml", root |-> root], ncx |-> ncx, nav |-> nav,
     doc |-> ContentDoc("")]

BaseRoot == OpfRoot("2.0", "", FullMetadata, TRUE, <<NcxItem, DocItem>>)

\* values of the package element's version attribute
Versions == {"", "1.0", "2", "2.0", "2.0.1", "20.0", "3", "3.0", "3.0.1", "3.2", "3.", ".3"}

\* packages that vary the OPF, with the NCX file missing, malformed, without
\* navMap or flat; EPUB 2 packages over every navMap; and packages over every
\* version
UpgradePackages ==
    {Package(OpfRoot(v, xl, md, m[1], m[2]), ncx, NoNav) :
        v \in {"2.0", "3.0", ""}, xl \in {"", "fr"},
        md \in {FullMetadata, NoMetadata, EmptyMetadata, TitleOnlyMetadata},
        m \in {<<TRUE, <<NcxItem, DocItem>>>>, <<TRUE, <<DocItem>>>>,
               <<TRUE, <<NcxItem, DocItem, NavItem>>>>, <<FALSE, <<>>>>,
               <<TRUE, <<NcxItem, DocItem, ScriptedNavItem>>>>,
               <<TRUE, <<NcxItem, DocItem, TocPageItem>>>>,
               <<TRUE, <<NcxItem, DocItem, AddedNavItem>>>>},
        ncx \in {MissingNcx, MalformedNcx, NoNavMapNcx, FlatNcx}}
    \cup {Package(BaseRoot, NcxFile(nm), NoNav) : nm \in NavMaps}
    \cup {Package([BaseRoot EXCEPT !.version = v], FlatNcx, NoNav) : v \in Versions}

UpgradeArgs ==
    [target_version : {"3.0"}, force_rewrite : BOOLEAN, dry_run : BOOLEAN, report : BOOLEAN]

DefaultArgs ==
    [target_version |-> "3.0", force_rewrite |-> FALSE, dry_run |-> FALSE, report |-> TRUE]

\* --report: not given, a JSON report, a text report
ReportPaths == {"", "report.json", "Report.JSON", "report.txt"}

RepairDocs == {Body(k) : k \in SeqsUpTo({FakeHeadingP, FakeHeadingDiv, TextP, EmptyP}, MaxKids)}
RepairSheets == {BodySheet, FunctionSheet, ImportSheet}

InitRepair ==
    /\ InitRepairWith({OneFileBook},
                      {OneFileInput(d, sh) : d \in RepairDocs, sh \in RepairSheets},
                      {"safe", "aggressive"}, {NoFailure}, "run", ReportPaths)
    /\ InitUpgradeWith({Package(BaseRoot, FlatNcx, NoNav)}, {DefaultArgs}, {TRUE})

SpecRepair == InitRepair /\ [][NextRepair]_vars

InitUpgrade ==
    /\ InitRepairWith({OneFileBook}, {OneFileInput(EmptyDoc, <<>>)}, {}, {NoFailure}, "run", {""})
    /\ InitUpgradeWith(UpgradePackages, UpgradeArgs, BOOLEAN)

SpecUpgrade == InitUpgrade /\ [][NextUpgrade]_vars

\* upgrade_to_epub3 called directly on each of the packages
SpecUpgradeCall == InitUpgrade /\ [][NextUpgradeCall]_vars

MaxSpine == 3

\* the manifest items a book is made of: three content documents, a stylesheet
ManifestPool ==
    <<[id |-> "ch1", href |-> "ch1.xhtml", media_type |-> XhtmlType],
      [id |-> "ch2", href |-> "ch2.xhtml", media_type |-> XhtmlType],
      [id |-> "ch3", href |-> "ch3.xhtml", media_type |-> XhtmlType],
      [id |-> "css", href |-> "style.css", media_type |-> CssType]>>

\* a spine item as parse_opf resolves it; "gone" is an idref without item
SpineItem(idref) ==
    [idref |-> idref,
     href |-> IF idref = "css" THEN "style.css" ELSE idref \o ".xhtml"]

\* books over every part of the pool and every spine of at most MaxSpine items
Books ==
    {[spine_items |-> [i \in 1..Len(sp) |-> SpineItem(sp[i])],
      manifest_items |-> SelectSeq(ManifestPool, LAMBDA m : m.id \in ids)] :
        sp \in SeqsUpTo({"ch1", "ch2", "css", "gone"}, MaxSpine),
        ids \in SUBSET {"ch1", "ch2", "ch3", "css"}}

\* a package with two content documents in the spine and one stylesheet
TwoFileBook ==
    [spine_items |-> <<[idref |-> "ch1", href |-> "ch1.xhtml"],
                       [idref |-> "ch2", href |-> "ch2.xhtml"]>>,
     manifest_items |-> <<[id |-> "ch1", href |-> "ch1.xhtml", media_type |-> XhtmlType],
                          [id |-> "ch2", href |-> "ch2.xhtml", media_type |-> XhtmlType],
                          [id |-> "css", href |-> "style.css", media_type |-> CssType]>>]

TwoFileInput(doc1, doc2, sheet) ==
    [path \in {"ch1.xhtml", "ch2.xhtml", "style.css"} |->
        IF path = "ch1.xhtml" THEN doc1 ELSE IF path = "ch2.xhtml" THEN doc2
        ELSE CssFile(sheet)]

NoUpgrade == InitUpgradeWith({Package(BaseRoot, FlatNcx, NoNav)}, {DefaultArgs}, {TRUE})

InitBook ==
    /\ InitRepairWith(Books, {OneFileInput(EmptyDoc, <<>>)}, {}, {NoFailure}, "run", {""})
    /\ NoUpgrade

\* get_xhtml_files called on each of the books
SpecBook == InitBook /\ [][NextBook]_vars

\* run_repair where path.exists() raises in any set of rules, at the first or
\* the second file of the rule's loop
FaultDocs == {XhtmlFile(Body(<<FakeHeadingP>>)), XhtmlFile(Body(<<FakeHeadingDiv, EmptyP>>)),
              UndecodableFile}
Failures == [rules : SUBSET RuleNames, at : 1..2]

InitFault ==
    /\ InitRepairWith({TwoFileBook},
                      {TwoFileInput(d, XhtmlFile(Body(<<FakeHeadingP>>)), FunctionSheet) :
                          d \in FaultDocs},
                      {"safe", "aggressive"}, Failures, "run", {""})
    /\ NoUpgrade

SpecFault == InitFault /\ [][NextRepair]_vars

MaxUnitKids == 4

ListA == P(NoAttrib, "- A")
ListB == P(NoAttrib, "- B")
ListC == P(NoAttrib, "- C")
ListDocs == {Body(k) : k \in SeqsUpTo({ListA, ListB, ListC, TextP}, MaxUnitKids)}

\* normalize_lists called on a one-document book
InitLists ==
    /\ InitRepairWith({OneFileBook}, {OneFileInput(d, BodySheet) : d \in ListDocs},
                      {"normalize_lists"}, {NoFailure}, "call", {""})
    /\ NoUpgrade

SpecLists == InitLists /\ [][NextCall]_vars

PageBreakP == P([class |-> "page-break"], "")
StyledBreakP == P([style |-> "page-break-before: always;"], "")
ChapterTwoH2 == Elem("h2", NoAttrib, "Chapter Two", <<>>, "")
\* a heading without chapter, part or book in its text
PlainH2 == Elem("h2", NoAttrib, "Prologue", <<>>, "")
BreakUnits == {EmptyP, PageBreakP, StyledBreakP, ChapterTwoH2, PlainH2, TextP}
\* bodies of at most MaxUnitKids children, and bodies that open with a heading
\* followed by MaxUnitKids children
BreakDocs ==
    {Body(k) : k \in SeqsUpTo(BreakUnits, MaxUnitKids)}
    \cup {Body(<<PlainH2>> \o k) : k \in SeqsUpTo(BreakUnits, MaxUnitKids)}

\* normalize_context_breaks called on a one-document book
InitBreaks ==
    /\ InitRepairWith({OneFileBook}, {OneFileInput(d, BodySheet) : d \in BreakDocs},
                      {"normalize_context_breaks"}, {NoFailure}, "call", {""})
    /\ NoUpgrade

SpecBreaks == InitBreaks /\ [][NextCall]_vars

Br == Elem("br", NoAttrib, "", <<>>, "")
\* bodies with line breaks, headings and text paragraphs as children
BrDocs == {Body(k) : k \in SeqsUpTo({Br, ChapterTwoH2, PlainH2, TextP}, MaxUnitKids)}

\* normalize_context_breaks called on a one-document book with line breaks
InitBrRuns ==
    /\ InitRepairWith({OneFileBook}, {OneFileInput(d, BodySheet) : d \in BrDocs},
                      {"normalize_context_breaks"}, {NoFailure}, "call", {""})
    /\ NoUpgrade

SpecBrRuns == InitBrRuns /\ [][NextCall]_vars

\* an inline child of a paragraph, followed by the given tail text
Em(tail) == Elem("em", NoAttrib, "One", <<>>, tail)
Span(tail) == Elem("span", NoAttrib, "1", <<>>, tail)
HeadingKids == SeqsUpTo({Em(""), Em(" and more"), Span("!")}, MaxKids)
HeadingAttribs == {[class |-> "heading1"], [class |-> "heading1 intro"],
                   [class |-> "chapter"], [class |-> "title", id |-> "t1"]}
\* bodies whose only child is a paragraph classed as a heading
HeadingDocs ==
    {Body(<<Elem("p", a, x, k, "")>>) :
        a \in HeadingAttribs, x \in {"", "Chapter "}, k \in HeadingKids}

\* normalize_headings called on a one-document book with a fake heading
InitHeadings ==
    /\ InitRepairWith({OneFileBook}, {OneFileInput(d, BodySheet) : d \in HeadingDocs},
                      {"normalize_headings"}, {NoFailure}, "call", {""})
    /\ NoUpgrade

SpecHeadings == InitHeadings /\ [][NextCall]_vars

\* documents with and without work for the heading and the list normalizer
ChapterDocs == {Body(<<TextP>>), Body(<<FakeHeadingP>>), Body(<<TextP, FakeHeadingP>>),
                Body(<<ListA, ListB>>), Body(<<ListA, TextP>>), Body(<<FakeHeadingP, ListA>>)}

\* normalize_headings and normalize_lists called on a book of two documents
InitChapters ==
    /\ InitRepairWith({TwoFileBook},
                      {TwoFileInput(XhtmlFile(d1), XhtmlFile(d2), BodySheet) :
                          d1 \in ChapterDocs, d2 \in ChapterDocs},
                      {"normalize_headings", "normalize_lists"}, {NoFailure}, "call", {""})
    /\ NoUpgrade

SpecChapters == InitChapters /\ [][NextCall]_vars

MaxBrKids == 3
BrIds == <<"b1", "b2", "b3", "b4">>
\* the n-th child of a container: <br id="bn"/>, the same followed by text, or
\* an inline element
LineKid(kind, n) ==
    IF kind = "em" THEN Em("")
    ELSE Elem("br", [id |-> BrIds[n]], "", <<>>, IF kind = "br-text" THEN "b" ELSE "")
LineKids == {[n \in 1..Len(q) |-> LineKid(q[n], n)] :
                q \in SeqsUpTo({"br", "br-text", "em"}, MaxBrKids)}
\* the children in a paragraph, and the same children in the body itself
LineDocs == {Body(<<Elem("p", NoAttrib, "a", k, "")>>) : k \in LineKids}
            \cup {Body(k) : k \in LineKids}

\* normalize_paragraphs_and_indents called on a one-document book with line breaks
InitLines ==
    /\ InitRepairWith({OneFileBook}, {OneFileInput(d, BodySheet) : d \in LineDocs},
                      {"normalize_paragraphs_and_indents"}, {NoFailure}, "call", {""})
    /\ NoUpgrade

SpecLines == InitLines /\ [][NextCall]_vars

ItemList == Elem("ul", NoAttrib, "", <<Elem("li", NoAttrib, "A", <<>>, "")>>, "")
Table == Elem("table", NoAttrib, "", <<Elem("tr", NoAttrib, "", <<Elem("td", NoAttrib, "A", <<>>, "")>>, "")>>, "")
\* a div with or without text and a class, holding inline elements, headings,
\* lists and tables
DivDocs ==
    {Body(<<Elem("div", a, x, k, "")>>) :
        a \in {NoAttrib, [class |-> "box"]}, x \in {"", "Some text"},
        k \in SeqsUpTo({Em(""), PlainH2, ItemList, Table}, MaxKids)}

\* normalize_paragraphs_and_indents called on a one-document book with a div
InitDivs ==
    /\ InitRepairWith({OneFileBook}, {OneFileInput(d, BodySheet) : d \in DivDocs},
                      {"normalize_paragraphs_and_indents"}, {NoFailure}, "call", {""})
    /\ NoUpgrade

SpecDivs == InitDivs /\ [][NextCall]_vars

\* paragraphs with text or a child element that carry a page-break class or style
ClassedTextP == P([class |-> "page-break"], "Some text")
StyledChildP == Elem("p", [style |-> "page-break-before: always;"], "", <<Em("")>>, "")
TextBreakDocs ==
    {Body(k) : k \in SeqsUpTo({EmptyP, ClassedTextP, StyledChildP, TextP, ChapterTwoH2,
                               PlainH2}, MaxUnitKids)}

\* normalize_context_breaks called on a one-document book with such paragraphs
InitTextBreaks ==
    /\ InitRepairWith({OneFileBook}, {OneFileInput(d, BodySheet) : d \in TextBreakDocs},
                      {"normalize_context_breaks"}, {NoFailure}, "call", {""})
    /\ NoUpgrade

SpecTextBreaks == InitTextBreaks /\ [][NextCall]_vars

(***************************************************************************)
(* Properties of run_repair.                                               *)
(***************************************************************************)
RECURSIVE IsSubsequence(_, _)
\* the entries of a appear in b in the same relative order
IsSubsequence(a, b) ==
    IF a = <<>> THEN TRUE
    ELSE IF b = <<>> THEN FALSE
    ELSE IF Head(a) = Head(b) THEN IsSubsequence(Tail(a), Tail(b))
    ELSE IsSubsequence(a, Tail(b))

\* every counter of a is a counter of b with the same value
CountersWithin(a, b) == \A k \in DOMAIN a : k \in DOMAIN b /\ b[k] = a[k]

\* finished runs i and j were given identical copies of a book
SameBook(i, j) == runs[i].given = runs[j].given

Raises(rule) == FailAt(rule) \in 1..Len(RuleFiles(rule, book))

\* the entries the except clause of run_repair logged for the rule
FailureEntries(changes, rule) ==
    Cardinality({n \in 1..Len(changes) : changes[n] = Change("unknown", "rule-failed:" \o rule, 0, 0)})

\* inside the rule loop the rules called so far are the selected list up to the
\* loop's position, and each raising rule among them has one entry
LoopInOrder ==
    pc = "rules" =>
        /\ idx <= Len(SelectRules(mode)) + 1
        /\ invoked = SubSeq(SelectRules(mode), 1, idx - 1)
        /\ \A rule \in RuleNames :
              FailureEntries(reporter.changes, rule) =
                  IF InSeq(invoked, rule) /\ Raises(rule) THEN 1 ELSE 0

\* a repackaged run has called every rule of its list once, in the list's order,
\* and holds one entry per raising rule
RunsComplete ==
    \A k \in 1..Len(runs) :
        /\ runs[k].invoked = SelectRules(runs[k].mode)
        /\ \A rule \in RuleNames :
              FailureEntries(runs[k].summary.changes, rule) =
                  IF InSeq(runs[k].invoked, rule) /\ Raises(rule) THEN 1 ELSE 0

\* behind the last rule of the list nothing stands between the loop and
\* repackage_epub
RepackageFollows ==
    (pc = "rules" /\ idx > Len(SelectRules(mode))) => ENABLED Repackage

\* C2: a rule that raises never aborts the pipeline: whatever rules raise, every
\* rule of the selected set is called exactly once in the set's order, each failure
\* appends one change-log entry, and repackaging follows the last rule
C2_RaiseNeverAborts == LoopInOrder /\ RunsComplete /\ RepackageFollows

\* a repackaged Aggressive run in which at least two rules raised, the last rule
\* of the list among them
C2_Witness ==
    \E k \in 1..Len(runs) :
        /\ runs[k].mode = "aggressive"
        /\ runs[k].invoked = AGGRESSIVE_RULES
        /\ Raises("simplify_css_aggressive")
        /\ Cardinality({rule \in RuleNames : Raises(rule)}) >= 2
        /\ Cardinality({n \in 1..Len(runs[k].summary.changes) :
                           runs[k].summary.changes[n].file = "unknown"}) >= 2

\* C3: a second Safe run on the output of a first Safe run leaves every counter
\* at zero
C3_SecondSafeRunCountsNothing ==
    \A k \in 2..Len(runs) :
        (runs[k].mode = "safe" /\ runs[k].source = "previous" /\ runs[k - 1].mode = "safe")
        => \A c \in DOMAIN runs[k].summary.counters : runs[k].summary.counters[c] = 0

RECURSIVE ElementsOf(_)
\* the elements of a document, the root included
ElementsOf(e) == {e} \cup UNION {ElementsOf(e.kids[n]) : n \in 1..Len(e.kids)}

\* the content document a finished run was given, and the one it wrote
GivenDoc(k) == runs[k].given["ch1.xhtml"].doc
OutputDoc(k) == runs[k].output["ch1.xhtml"].doc

GivenSheet(k) == runs[k].given["style.css"].sheet
OutputSheet(k) == runs[k].output["style.css"].sheet

\* the stylesheet has a declaration of the property
Declares(sheet, name) ==
    \E n \in 1..Len(sheet) : \E m \in 1..Len(sheet[n].content) :
        sheet[n].content[m].value = name

\* C9: of body { font-size: 12px; line-height: 1.0; font-family: serif } the
\* Safe rule set removes font-size and line-height and keeps font-family, the
\* Aggressive rule set removes all three
C9_BodyDeclarationsRemoved ==
    \A k \in 1..Len(runs) :
        GivenSheet(k) = BodySheet
        => /\ ~Declares(OutputSheet(k), "font-size")
           /\ ~Declares(OutputSheet(k), "line-height")
           /\ Declares(OutputSheet(k), "font-family") <=> runs[k].mode = "safe"

(***************************************************************************)
(* Properties of single rules, called on a one-document book.              *)
(***************************************************************************)
\* the children of the body the rule was given, and the document it left
InputKids == input["ch1.xhtml"].doc.kids
FileDoc == files["ch1.xhtml"].doc

\* the given body is the three elements at positions n+1..n+3, with ordinary text
\* paragraphs around them
RunOfThreeAt(n, three) ==
    /\ Len(InputKids) >= n + 3
    /\ SubSeq(InputKids, n + 1, n + 3) = three
    /\ \A m \in 1..Len(InputKids) : m \in (n + 1)..(n + 3) \/ InputKids[m] = TextP

\* the rule has been called once on the input
CalledOnce(rule) == invoked = <<rule>>

\* C4: of three paragraphs "- A", "- B", "- C" normalize_lists leaves exactly one
\* ul, where the first paragraph was, with three li children of texts A, B, C in
\* that order, and the three paragraphs are gone
C4_ThreeItemsBecomeOneUl ==
    \A n \in 0..(MaxUnitKids - 3) :
        (CalledOnce("normalize_lists") /\ RunOfThreeAt(n, <<ListA, ListB, ListC>>))
        => /\ Len(FileDoc.kids) = Len(InputKids) - 2
           /\ Cardinality({e \in ElementsOf(FileDoc) : e.tag = "ul"}) = 1
           /\ FileDoc.kids[n + 1].tag = "ul"
           /\ [m \in 1..Len(FileDoc.kids[n + 1].kids) |-> FileDoc.kids[n + 1].kids[m].tag]
                 = <<"li", "li", "li">>
           /\ [m \in 1..Len(FileDoc.kids[n + 1].kids) |-> FileDoc.kids[n + 1].kids[m].text]
                 = <<"A", "B", "C">>
           /\ \A e \in ElementsOf(FileDoc) : e.tag = "p" => e.text = TextP.text

\* C5: three consecutive empty paragraphs are replaced by exactly one
\* <hr class="scene-break"/>, and the scene-break counter goes up by one
C5_ThreeEmptyBecomeOneHr ==
    \A n \in 0..(MaxUnitKids - 3) :
        (CalledOnce("normalize_context_breaks") /\ RunOfThreeAt(n, <<EmptyP, EmptyP, EmptyP>>))
        => /\ Len(FileDoc.kids) = Len(InputKids) - 2
           /\ Cardinality({e \in ElementsOf(FileDoc) : e.tag = "hr"}) = 1
           /\ FileDoc.kids[n + 1].tag = "hr"
           /\ AttrGet(FileDoc.kids[n + 1].attrib, "class", "") = "scene-break"
           /\ reporter.counters["breaks.normalized_scene_breaks"] = 1

\* an empty paragraph with a page-break class or a page-break style
IsBreakParagraph(e) ==
    /\ e.tag = "p" /\ e.text = "" /\ e.kids = <<>>
    /\ \/ AttrGet(e.attrib, "class", "") = "page-break"
       \/ Contains(AttrGet(e.attrib, "style", ""), "page-break")

IsChapterTwo(e) == e.tag = "h2" /\ e.text = "Chapter Two"

\* the positions of the page-break paragraphs that stand right before a
\* "Chapter Two" heading
BreaksBeforeChapter(kids) ==
    {n \in 1..(Len(kids) - 1) : IsBreakParagraph(kids[n]) /\ IsChapterTwo(kids[n + 1])}

\* the given body is one page-break paragraph and an ordinary text paragraph
BreakBeforeText == \E b \in {PageBreakP, StyledBreakP} : InputKids = <<b, TextP>>

\* C8: a page-break paragraph right before <h2>Chapter Two</h2> is still there
\* after normalize_context_breaks; the same paragraph right before an ordinary
\* text paragraph is removed and counted as one removed page break
C8_BreakKeptBeforeChapter ==
    CalledOnce("normalize_context_breaks")
    => /\ Cardinality(BreaksBeforeChapter(FileDoc.kids))
            = Cardinality(BreaksBeforeChapter(InputKids))
       /\ BreakBeforeText
            => /\ \A e \in ElementsOf(FileDoc) : ~IsBreakParagraph(e)
               /\ reporter.counters["breaks.removed_page_breaks"] = 1

(***************************************************************************)
(* Properties of epub-upgrade.                                             *)
(***************************************************************************)
RECURSIVE AllOk(_)
\* every navPoint of the forest has a label and a target
AllOk(points) == \A n \in 1..Len(points) : points[n].ok /\ AllOk(points[n].kids)

RECURSIVE Mirrors(_, _)
\* the list has one li per navPoint, in order, with the navPoint's target and
\* label, and the li's nested list mirrors the navPoint's children
Mirrors(ol, points) ==
    /\ Len(ol) = Len(points)
    /\ \A n \in 1..Len(ol) :
          /\ ol[n].href = points[n].src
          /\ ol[n].text = points[n].text
          /\ Mirrors(ol[n].ol, points[n].kids)

RECURSIVE LinksOf(_)
\* the hrefs of the list items of a list, nested ones included, in document order
LinksOf(ol) ==
    IF ol = <<>> THEN <<>> ELSE <<Head(ol).href>> \o LinksOf(Head(ol).ol) \o LinksOf(Tail(ol))

NoRepeats(seq) == \A a, b \in 1..Len(seq) : seq[a] = seq[b] => a = b

\* main has run upgrade_to_epub3 and repackaged
Upgraded == step \in {"summary", "done"} /\ outputEpub # <<>> /\ outputEpub[1] # package

\* C6: the navigation document made from an NCX with nested navPoints mirrors
\* the nesting exactly: one li per navPoint inside the li of its parent, in source
\* order, and no entry more than once
C6_NavMirrorsNcx ==
    (/\ Upgraded
     /\ extracted.nav.kind = "nav"
     /\ AllOk(package.ncx.navMap)
     /\ \E n \in 1..Len(package.ncx.navMap) : package.ncx.navMap[n].kids # <<>>)
    => /\ Mirrors(extracted.nav.ol, package.ncx.navMap)
       /\ NoRepeats(LinksOf(extracted.nav.ol))

\* the package is version 2.0 and its manifest has an NCX item whose file is there
Epub2WithNcx ==
    /\ package.opf.kind = "xml"
    /\ package.opf.root.version = "2.0"
    /\ package.opf.root.hasManifest
    /\ \E n \in 1..Len(package.opf.root.manifest) :
          /\ package.opf.root.manifest[n].media_type = NcxType
          /\ HrefExists(package, package.opf.root.manifest[n].href)

\* C10: after upgrading a 2.0 package with an NCX item to 3.0 the persisted
\* package version is "3.0", the manifest has an item with properties="nav" that
\* points at the navigation document, and the report has nav_converted true,
\* ncx_source naming the NCX path and new_version "3.0"
C10_UpgradeRegistersNav ==
    (Upgraded /\ Epub2WithNcx /\ args.target_version = "3.0")
    => /\ extracted.opf.kind = "xml"
       /\ ParseOpf(extracted.opf).version = "3.0"
       /\ \E n \in 1..Len(extracted.opf.root.manifest) :
             /\ extracted.opf.root.manifest[n].properties = "nav"
             /\ extracted.opf.root.manifest[n].href = NavHref
             /\ HrefExists(extracted, NavHref)
       /\ upgradeReporter.nav_converted
       /\ upgradeReporter.ncx_source = OpfDir \o NcxHref
       /\ upgradeReporter.new_version = "3.0"

\* upgrade_to_epub3 has returned
Called == step = "called"

\* the version of the given package is some 3.x and no rewrite is forced
AlreadyEpub3 ==
    /\ package.opf.kind = "xml"
    /\ package.opf.root.version = "3" \/ StartsWith(package.opf.root.version, "3.")
    /\ ~args.force_rewrite

\* C11: upgrade_to_epub3 on a package whose major version is "3", without
\* force_rewrite, changes nothing: it appends exactly one note to the report, no
\* warning, nav_converted stays false, and the package descriptor, the
\* manifest, the navigation document and the content documents are as given
C11_Epub3IsLeftAlone ==
    (Called /\ AlreadyEpub3)
    => /\ Len(upgradeReporter.notes) = 1
       /\ upgradeReporter.warnings = <<>>
       /\ ~upgradeReporter.nav_converted
       /\ extracted = package

\* the call returned for a 3.x package that has an NCX to convert and no
\* language attribute
C11_Witness ==
    /\ Called /\ AlreadyEpub3
    /\ package.opf.root.version = "3.0"
    /\ FindNcxInManifest(package, package.opf.root) # ""
    /\ package.ncx.kind = "ncx"
    /\ upgradeReporter.notes = <<"Already EPUB 3, no upgrade needed">>

\* main is past the version detection
PastDetection == step \in {"detected", "summary", "done"}

\* detection failed: main returned 1 from its except clause
DetectionFailed == step = "done" /\ exitCode = 1

\* the report as main fills it right after the detection
DetectedReport ==
    SetVersions(NewUpgradeReporter, upgradeReporter.original_version,
                package.opf.root.version, "")

BeforeFirstDot(n, raw) ==
    \E k \in 0..Len(raw) :
       /\ n = SubSeq(raw, 1, k)
       /\ ~Contains(n, ".")
       /\ k = Len(raw) \/ CharAt(raw, k + 1) = "."

HasToken(s, tok) ==
    \E i \in 1..(Len(s) - Len(tok) + 1) :
       /\ SubSeq(s, i, i + Len(tok) - 1) = tok
       /\ i = 1 \/ IsSpaceChar(CharAt(s, i - 1))
       /\ i + Len(tok) - 1 = Len(s) \/ IsSpaceChar(CharAt(s, i + Len(tok)))

\* the positions of the item elements of a manifest that carry the nav role
NavRoleItems(manifest) == {k \in 1..Len(manifest) : HasToken(manifest[k].properties, "nav")}

\* C13: after an upgrade run at most one item of the manifest carries the nav
\* role, also when the given manifest already has a navigation item (a forced
\* rewrite of an EPUB 3 package, or an item whose properties list nav among
\* other tokens)
C13_AtMostOneNavItem ==
    (Upgraded /\ Cardinality(NavRoleItems(package.opf.root.manifest)) <= 1)
    => Cardinality(NavRoleItems(extracted.opf.root.manifest)) <= 1

\* the ids of the item elements of a manifest, in document order
ItemIds(manifest) == [k \in 1..Len(manifest) |-> manifest[k].id]

\* C14: an upgrade keeps the manifest ids unique: pairwise distinct ids in the
\* given manifest are pairwise distinct in the persisted one, also when the
\* given manifest has an item with id "nav"
C14_ManifestIdsStayUnique ==
    (Upgraded /\ NoRepeats(ItemIds(package.opf.root.manifest)))
    => NoRepeats(ItemIds(extracted.opf.root.manifest))

\* the three required fields with the warning recorded when one is added
RequiredFields ==
    {<<"title", "Missing dc:title, added placeholder">>,
     <<"identifier", "Missing dc:identifier, added placeholder">>,
     <<"language", "Missing dc:language, added placeholder 'en'">>}

\* how many entries of a sequence equal x
CountOf(seq, x) == Cardinality({k \in 1..Len(seq) : seq[k] = x})

\* the dc elements of that name a reader finds in an OPF file
FieldsRead(file, name) ==
    IF file.kind = "xml" THEN DcElements(ParseOpf(file), name) ELSE <<>>

\* C15: after an upgrade that is not a no-op the metadata has dc:title,
\* dc:identifier and dc:language: for each one the given package lacks exactly
\* one placeholder was inserted and exactly one warning recorded, and for each
\* one it has nothing was inserted and no warning recorded
C15_RequiredMetadata ==
    Upgraded
    => \A f \in RequiredFields :
          LET given == Len(FieldsRead(package.opf, f[1])) IN
          /\ Len(FieldsRead(extracted.opf, f[1])) = (IF given = 0 THEN 1 ELSE given)
          /\ CountOf(upgradeReporter.warnings, f[2]) = (IF given = 0 THEN 1 ELSE 0)

\* C17: the JSON report a repair run writes (--report with a path that ends in
\* .json) has the keys counters, changes, total_files_modified and mode, and
\* mode is the rule-set selection the run used
C17_JsonReportHasMode ==
    \A k \in 1..Len(runs) :
        IsJsonPath(reportPath)
        => /\ Len(runs[k].report) = 1
           /\ runs[k].report[1].format = "json"
           /\ {"counters", "changes", "total_files_modified", "mode"}
                  \subseteq DOMAIN runs[k].report[1].data
           /\ runs[k].report[1].data.mode = runs[k].mode

\* the positions of the spine items whose idref names a content document of
\* the manifest
ContentSpineItems ==
    {k \in 1..Len(book.spine_items) :
        \E n \in 1..Len(book.manifest_items) :
           /\ book.manifest_items[n].id = book.spine_items[k].idref
           /\ book.manifest_items[n].media_type = XhtmlType}

\* the n-th smallest member of a set of positions
NthOf(K, n) == CHOOSE k \in K : Cardinality({j \in K : j <= k}) = n

\* C18: get_xhtml_files returns exactly the resolved paths of the spine items
\* whose idref names a manifest item of media type application/xhtml+xml, in
\* spine order, one entry per spine item; a manifest item that is not in the
\* spine never appears
C18_XhtmlFilesFollowSpine ==
    listed.called
    => /\ Len(listed.xhtml) = Cardinality(ContentSpineItems)
       /\ \A n \in 1..Len(listed.xhtml) :
             listed.xhtml[n] = book.spine_items[NthOf(ContentSpineItems, n)].href
       /\ \A n \in 1..Len(book.manifest_items) :
             (\A k \in 1..Len(book.spine_items) :
                 book.spine_items[k].idref # book.manifest_items[n].id)
             => ~InSeq(listed.xhtml, book.manifest_items[n].href)

\* the files of a book whose spine names the second chapter, the stylesheet
\* and the second chapter again, and whose manifest has every item of the pool
C18_Witness ==
    /\ listed.called
    /\ [k \in 1..Len(book.spine_items) |-> book.spine_items[k].idref] = <<"ch2", "css", "ch2">>
    /\ Len(book.manifest_items) = 4
    /\ listed.xhtml = <<"ch2.xhtml", "ch2.xhtml">>

\* a paragraph the page-break pass looks at: no text and no children, or a
\* page-break class, or a page-break style
IsCandidate(e) ==
    /\ e.tag = "p"
    /\ \/ Strip(e.text) = "" /\ e.kids = <<>>
       \/ Lower(AttrGet(e.attrib, "class", "")) \in {"page-break", "pagebreak", "break"}
       \/ Contains(Lower(AttrGet(e.attrib, "style", "")), "page-break")
       \/ Contains(Lower(AttrGet(e.attrib, "style", "")), "pagebreak")

\* the heading's own text names a chapter, a part or a book
NamesChapter(e) ==
    \E kw \in {"chapter", "part", "book"} : Contains(Lower(e.text), kw)

\* the documented retention rule for the n-th child of a parent with these
\* children
DocumentedKeep(kids, n) ==
    /\ n < Len(kids)
    /\ kids[n + 1].tag \in {"h1", "h2"}
    /\ NamesChapter(kids[n + 1]) \/ n <= 3

\* the candidates of the given body the documented rule keeps, and the others
KeptCandidates ==
    {n \in 1..Len(InputKids) : IsCandidate(InputKids[n]) /\ DocumentedKeep(InputKids, n)}
OtherCandidates ==
    {n \in 1..Len(InputKids) : IsCandidate(InputKids[n]) /\ ~DocumentedKeep(InputKids, n)}

\* the paragraphs without text and children of a list of elements
EmptyParagraphs(kids) ==
    {n \in 1..Len(kids) : kids[n].tag = "p" /\ Strip(kids[n].text) = "" /\ kids[n].kids = <<>>}

\* C19: page-break retention is exactly the documented rule: a candidate is
\* kept only if it stands right before an h1/h2 whose text has chapter, part or
\* book, or it is among the first three children of its parent and right before
\* an h1/h2; every other candidate is removed and counted as a removed page
\* break.  For the bodies here, whose candidates are all empty paragraphs: no
\* more empty paragraphs are left than the rule keeps, and the page-break
\* counter is at least the number of the other candidates
C19_RetentionIsDocumentedRule ==
    CalledOnce("normalize_context_breaks")
    => /\ Cardinality(EmptyParagraphs(FileDoc.kids)) <= Cardinality(KeptCandidates)
       /\ reporter.counters["breaks.removed_page_breaks"] >= Cardinality(OtherCandidates)

\* every candidate of the given body stands right before a chapter heading: the
\* page-break pass removes nothing
AllRetained ==
    \A n \in 1..Len(InputKids) :
        IsCandidate(InputKids[n])
        => /\ n < Len(InputKids)
           /\ InputKids[n + 1].tag \in {"h1", "h2"}
           /\ NamesChapter(InputKids[n + 1])

\* the empty paragraphs of the given body are one run of at least two in the
\* list of its paragraphs: no other paragraph stands between two of them
OneEmptyRun ==
    /\ Cardinality(EmptyParagraphs(InputKids)) >= 2
    /\ \A n \in 1..Len(InputKids) :
          (InputKids[n].tag = "p" /\ n \notin EmptyParagraphs(InputKids))
          => \/ \A a \in EmptyParagraphs(InputKids) : n < a
             \/ \A a \in EmptyParagraphs(InputKids) : n > a

\* the child position of the first paragraph of the run
RunStart ==
    CHOOSE a \in EmptyParagraphs(InputKids) : \A b \in EmptyParagraphs(InputKids) : a <= b

RECURSIVE Without(_, _, _)
\* the elements of a list from position n on whose positions are not in S
Without(kids, S, n) ==
    IF n > Len(kids) THEN <<>>
    ELSE (IF n \in S THEN <<>> ELSE <<kids[n]>>) \o Without(kids, S, n + 1)

\* C20: when the scene-break pass replaces a run of two or more empty
\* paragraphs, the paragraphs of the run are children of one parent, all of
\* them are deleted, and the one <hr class="scene-break"/> stands at the child
\* position the first paragraph of the run had; the other children are as
\* before
C20_SceneBreakAtRunStart ==
    (CalledOnce("normalize_context_breaks") /\ AllRetained /\ OneEmptyRun)
    => LET rest == Without(InputKids, EmptyParagraphs(InputKids), 1)
           out == FileDoc.kids
       IN /\ reporter.counters["breaks.normalized_scene_breaks"] = 1
          /\ Len(out) = Len(rest) + 1
          /\ out[RunStart].tag = "hr"
          /\ AttrGet(out[RunStart].attrib, "class", "") = "scene-break"
          /\ \A n \in 1..Len(rest) :
                LET o == out[IF n < RunStart THEN n ELSE n + 1] IN
                o.tag = rest[n].tag /\ o.text = rest[n].text

\* the positions of the br children of the given body
BrPositions == {n \in 1..Len(InputKids) : InputKids[n].tag = "br"}

\* the br children of the given body are one run of at least three adjacent ones
OneBrRun ==
    /\ Cardinality(BrPositions) >= 3
    /\ \A a, b \in BrPositions : \A n \in a..b : n \in BrPositions

BrRunFirst == CHOOSE a \in BrPositions : \A b \in BrPositions : a <= b
BrRunLast == CHOOSE a \in BrPositions : \A b \in BrPositions : a >= b

\* the run stands right before an h1/h2 that names a chapter
BrRunBeforeChapter ==
    /\ BrRunLast < Len(InputKids)
    /\ InputKids[BrRunLast + 1].tag \in {"h1", "h2"}
    /\ NamesChapter(InputKids[BrRunLast + 1])

\* the tags of a list of elements
TagsOf(kids) == [n \in 1..Len(kids) |-> kids[n].tag]

\* C21: a run of three or more br elements right before an h1/h2 that names a
\* chapter, part or book is collapsed to one br, no hr is made, and the number
\* of br elements removed is added to the removed-page-breaks counter; a run
\* not followed by such a heading becomes exactly one <hr class="scene-break"/>
C21_BrRunBeforeChapterCollapses ==
    (CalledOnce("normalize_context_breaks") /\ OneBrRun)
    => LET first == BrRunFirst
           last == BrRunLast
           out == FileDoc.kids
           one == IF BrRunBeforeChapter THEN "br" ELSE "hr"
       IN /\ TagsOf(out) = SubSeq(TagsOf(InputKids), 1, first - 1) \o <<one>>
                              \o SubSeq(TagsOf(InputKids), last + 1, Len(InputKids))
          /\ BrRunBeforeChapter
             => /\ reporter.counters["breaks.removed_page_breaks"] = last - first
                /\ reporter.counters["breaks.normalized_scene_breaks"] = 0
          /\ ~BrRunBeforeChapter
             => /\ AttrGet(out[first].attrib, "class", "") = "scene-break"
                /\ reporter.counters["breaks.normalized_scene_breaks"] = 1
                /\ reporter.counters["breaks.removed_page_breaks"] = 0

\* the class names the paragraphs of the heading documents carry
ClassTokens == {"heading1", "intro", "chapter", "title"}

\* the class name holds one of the keywords the rule looks for
MatchesKeyword(tok) ==
    \E n \in 1..Len(FakeHeadingPatterns) : Contains(tok, FakeHeadingPatterns[n])

\* the given body is one paragraph whose class holds a heading keyword
OneFakeHeading ==
    /\ Len(InputKids) = 1
    /\ InputKids[1].tag = "p"
    /\ MatchesKeyword(AttrGet(InputKids[1].attrib, "class", ""))

\* the same text, blank text (the indentation serialize_xhtml writes) aside
SameText(a, b) == a = b \/ (IsBlank(a) /\ IsBlank(b))

RECURSIVE SameNodes(_, _)
\* the same lists of nodes: tags, attributes, text, tails and children
SameNodes(a, b) ==
    /\ Len(a) = Len(b)
    /\ \A n \in 1..Len(a) :
          /\ a[n].tag = b[n].tag
          /\ a[n].attrib = b[n].attrib
          /\ SameText(a[n].text, b[n].text)
          /\ SameText(a[n].tail, b[n].tail)
          /\ SameNodes(a[n].kids, b[n].kids)

\* C22: the heading that replaces a converted paragraph has the paragraph's
\* leading text, its child nodes in the same order each with its original tail
\* (not lost, not doubled), and every attribute of the paragraph except the
\* class token that matched the heading keyword
C22_ConversionPreservesContent ==
    (CalledOnce("normalize_headings") /\ OneFakeHeading)
    => LET p == InputKids[1]
           h == FileDoc.kids[1]
       IN /\ Len(FileDoc.kids) = 1
          /\ h.tag \in HeadingTags
          /\ SameText(h.text, p.text)
          /\ SameNodes(h.kids, p.kids)
          /\ DOMAIN h.attrib \subseteq DOMAIN p.attrib
          /\ \A a \in DOMAIN p.attrib \ {"class"} :
                a \in DOMAIN h.attrib /\ h.attrib[a] = p.attrib[a]
          /\ \A tok \in ClassTokens :
                HasToken(AttrGet(h.attrib, "class", ""), tok)
                <=> (HasToken(AttrGet(p.attrib, "class", ""), tok) /\ ~MatchesKeyword(tok))

\* the rule finds nothing to do in the document: called on it alone, it
\* converts no heading, fixes no nesting and creates no list
NothingToDo(rule, file) == TreeStep(rule, ParseTree(file.doc), <<0, 0>>).c = <<0, 0>>

\* the change-log entries of a file
EntriesOf(rep, path) == {n \in 1..Len(rep.changes) : rep.changes[n].file = path}

\* C23: the heading and the list normalizer neither write back nor log a
\* content document in which they change nothing, whatever they did to the
\* documents processed before it
C23_UnchangedDocumentIsLeftAlone ==
    \A rule \in {"normalize_headings", "normalize_lists"} :
        CalledOnce(rule)
        => \A path \in {"ch1.xhtml", "ch2.xhtml"} :
              NothingToDo(rule, input[path])
              => /\ files[path] = input[path]
                 /\ EntriesOf(reporter, path) = {}

\* the given body holds one paragraph, which holds the line breaks
InParagraph == Len(InputKids) = 1 /\ InputKids[1].tag = "p"
\* the children of the element that holds the line breaks, given and written
GivenLine == IF InParagraph THEN InputKids[1].kids ELSE InputKids
WrittenLine == IF InParagraph THEN FileDoc.kids[1].kids ELSE FileDoc.kids

\* children n and n + 1 are br elements with nothing between them
AdjacentBrs(kids, n) ==
    /\ n >= 1 /\ n < Len(kids)
    /\ kids[n].tag = "br" /\ kids[n + 1].tag = "br"
    /\ IsBlank(kids[n].tail)

\* the br at position n is in a run of directly adjacent br elements
InBrRun(kids, n) == AdjacentBrs(kids, n - 1) \/ AdjacentBrs(kids, n)

\* the br at position n is the last child of a paragraph
LastOfParagraph(kids, n) == InParagraph /\ n = Len(kids)

\* the br with the id is among the children
HasBr(kids, id) ==
    \E n \in 1..Len(kids) : kids[n].tag = "br" /\ AttrGet(kids[n].attrib, "id", "") = id

\* C24: normalize_paragraphs_and_indents removes a br only when it is in a run
\* of directly adjacent br elements, of which one is left, or when it is the
\* last child of a paragraph; a br that text or other elements separate from
\* the other br elements and that is not the last child of a paragraph stays
C24_OnlyRunsAndTrailingBrsGo ==
    CalledOnce("normalize_paragraphs_and_indents")
    => \A n \in 1..Len(GivenLine) :
          GivenLine[n].tag = "br"
          => /\ (~InBrRun(GivenLine, n) /\ ~LastOfParagraph(GivenLine, n))
                => HasBr(WrittenLine, GivenLine[n].attrib.id)
             /\ (AdjacentBrs(GivenLine, n) /\ ~AdjacentBrs(GivenLine, n - 1))
                => \/ \E m \in n..Len(GivenLine) :
                         /\ \A j \in n..(m - 1) : AdjacentBrs(GivenLine, j)
                         /\ HasBr(WrittenLine, GivenLine[m].attrib.id)
                   \/ /\ InParagraph
                      /\ \A j \in n..(Len(GivenLine) - 1) : AdjacentBrs(GivenLine, j)

\* the block-level elements of the documents
BlockLevelTags == HeadingTags \cup {"div", "p", "ul", "ol", "table", "blockquote"}

\* the given body is one div
OneDiv == Len(InputKids) = 1 /\ InputKids[1].tag = "div"

\* C25: normalize_paragraphs_and_indents renames a div to p only if the div
\* has no block-level child of any kind (no div or p, and no heading, list or
\* table either), and the renamed element keeps the text, the children and
\* the attributes of the div
C25_OnlyInlineDivsBecomeParagraphs ==
    (CalledOnce("normalize_paragraphs_and_indents") /\ OneDiv)
    => LET d == InputKids[1]
           o == FileDoc.kids[1]
       IN /\ Len(FileDoc.kids) = 1
          /\ o.tag \in {"div", "p"}
          /\ o.tag = "p" => \A n \in 1..Len(d.kids) : d.kids[n].tag \notin BlockLevelTags
          /\ o.attrib = d.attrib
          /\ SameText(o.text, d.text)
          /\ SameNodes(o.kids, d.kids)

\* the value of a Reporter counter, zero when nothing was added to it
CounterOf(counters, category) ==
    IF category \in DOMAIN counters THEN counters[category] ELSE 0

\* the counts a rule reported in the summary line of a file are in the
\* counters of the rule
CountsKept(summary, entry) ==
    LET cats == RuleCategories(entry.kind) IN
    /\ CounterOf(summary.counters, cats[1]) >= entry.a
    /\ Len(cats) > 1 => CounterOf(summary.counters, cats[2]) >= entry.b

\* C26: when a rule raises while it processes a file, the failure is logged,
\* the run goes on with the remaining rules, and the counts the rule had
\* reached before the failure (the counts of its summary lines) are in the
\* Reporter counters of the finished run, also when the exception left the
\* rule and was caught by run_repair
C26_FailureKeepsCounts ==
    \A k \in 1..Len(runs) :
        /\ runs[k].invoked = SelectRules(runs[k].mode)
        /\ \A rule \in RuleNames :
              (InSeq(runs[k].invoked, rule) /\ Raises(rule))
              => FailureEntries(runs[k].summary.changes, rule) >= 1
        /\ \A n \in 1..Len(runs[k].summary.changes) :
              runs[k].summary.changes[n].kind \in RuleNames
              => CountsKept(runs[k].summary, runs[k].summary.changes[n])

\* a paragraph with text or with child elements
HasContent(e) == e.tag = "p" /\ (~IsBlank(e.text) \/ Len(e.kids) > 0)

\* the paragraphs with content among the children, in document order
ContentParagraphs(kids) == SelectSeq(kids, HasContent)

\* the same paragraphs by text and children, whatever their attributes
SameContent(a, b) ==
    /\ Len(a) = Len(b)
    /\ \A n \in 1..Len(a) :
          SameText(a[n].text, b[n].text) /\ SameNodes(a[n].kids, b[n].kids)

\* C27: normalize_context_breaks deletes no paragraph that has text or child
\* elements: the paragraphs with content of the given body are all in the
\* body the rule leaves, in the same order
C27_ContentParagraphsSurvive ==
    CalledOnce("normalize_context_breaks")
    => SameContent(ContentParagraphs(FileDoc.kids), ContentParagraphs(InputKids))

\* the page-break candidates among the children
Candidates(kids) == {n \in 1..Len(kids) : IsCandidate(kids[n])}

\* the number of candidates of the given body that the page-break pass keeps
KeptByPagePass ==
    Cardinality(Candidates(InputKids))
        - Len(PageBreaksToRemove(ParseTree(input["ch1.xhtml"].doc)))

\* C28: every page-break paragraph the page-break pass keeps is in the
\* document when normalize_context_breaks returns: the scene-break pass
\* deletes or replaces none of them, however many are kept
C28_RetainedPageBreaksRemain ==
    CalledOnce("normalize_context_breaks")
    => Cardinality(Candidates(FileDoc.kids)) >= KeptByPagePass

\* the rule called last, and the files of its loop
LastRule == invoked[Len(invoked)]
LastFiles == RuleFiles(LastRule, book)

\* the rule called last raises while it handles the i-th file of its loop:
\* the file cannot be read, or path.exists() raises for it
RaisesOn(i) == FailAt(LastRule) = i \/ ~Readable(before.files, LastFiles[i])

\* the file as the rule called last leaves it when it handles this file alone
HandledAlone(path) ==
    FileStep(LastRule, [files |-> before.files, rep |-> NewReporter, c |-> <<0, 0>>,
                        raised |-> FALSE], path).files[path]

\* C29: when a rule raises while it processes one file, that file is left as
\* it was before the rule was called, and the rule still processes the other
\* files of its loop: a file the rule has something to change in is changed
C29_FailureLeavesFileAndGoesOn ==
    (pc = "rules" /\ invoked # <<>>)
    => \A i \in 1..Len(LastFiles) :
          RaisesOn(i)
          => /\ files[LastFiles[i]] = before.files[LastFiles[i]]
             /\ \A j \in 1..Len(LastFiles) :
                   (~RaisesOn(j) /\ HandledAlone(LastFiles[j]) # before.files[LastFiles[j]])
                   => files[LastFiles[j]] = HandledAlone(LastFiles[j])

\* the files a rule wrote back in a finished run: those with a summary line of
\* a rule in the change log
Rewritten(k) ==
    {runs[k].summary.changes[n].file :
        n \in {m \in 1..Len(runs[k].summary.changes) :
                  runs[k].summary.changes[m].kind \in RuleNames}}

\* C30: total_files_modified of a run's summary counts only files that a rule
\* wrote back: entries for missing files, for errors in a file and for failed
\* rules add nothing to it
C30_TotalCountsRewrittenFiles ==
    \A k \in 1..Len(runs) :
        runs[k].summary.total_files_modified <= Cardinality(Rewritten(k))

====
